---- MODULE Spec2Model ----
(***************************************************************************)
(* The CST -> AST lowering engine of vul_witch                             *)
(* (src/vul_witch/ast/backend/tree_sitter/parser.py, TreeSitterCParser).   *)
(*                                                                         *)
(* The CST maps the path of child indices of each node (<<>> is the root)   *)
(* to what tree_sitter holds of it: [type, text, child_count, err, range].  *)
(* The cursor is such a path.                         Every _consume_* /  *)
(* _parse_* method of the engine is an operator of the same name (without  *)
(* the leading underscore) from the cursor it is entered with to a result  *)
(* record [exc, cur, val]: exc = "none" and val the AST node on a normal   *)
(* return, exc the exception class otherwise; cur is the cursor the method *)
(* leaves behind.  A Python Optional is a sequence of length <= 1.         *)
(*                                                                         *)
(* A `while` loop whose body returns with the cursor where it began, while *)
(* the loop test only reads the cursor, never exits in the code: the loop  *)
(* operators report that as exc = "NonTermination".                        *)
(***************************************************************************)
EXTENDS Integers, Sequences, FiniteSets, TLC

VARIABLES
    tree,      \* self._tree: the CST the grammar engine produced
    cursor,    \* self._cursor
    pc,        \* where the call stands
    nodes,     \* parse_module's local list `nodes`
    outcome,   \* how the call ended: the value returned or the exception
    visited,   \* the top-level child indices the driver loop stood on
    call,      \* SpecConsume: the method applied, where, and its result
    registry,  \* ParsingFixerRegistry._registry, a defaultdict(list)
    first_run  \* SpecTwoRuns: how the first parse_module call ended

vars == <<tree, cursor, pc, nodes, outcome, visited, call, registry, first_run>>

\* A value of an Optional type is None or Some(v); a list stored in an
\* Optional field is Some(list), so that Some(<<>>), the empty list, is not None.
None == <<>>
Some(x) == <<x>>

(***************************************************************************)
(* The cursor (tree_sitter.TreeCursor) and the node it reads.              *)
(***************************************************************************)
NodeAt(c) == tree[c]

GotoFirstChild(c) == IF NodeAt(c).child_count > 0 THEN Append(c, 1) ELSE c

GotoParent(c) == IF c = <<>> THEN c ELSE SubSeq(c, 1, Len(c) - 1)

HasNextSibling(c) ==
    /\ c # <<>>
    /\ c[Len(c)] < NodeAt(GotoParent(c)).child_count

GotoNextSibling(c) ==
    IF HasNextSibling(c) THEN [c EXCEPT ![Len(c)] = @ + 1] ELSE c

get_current_code_start(c) == NodeAt(c).range[1]
get_current_code_end(c) == NodeAt(c).range[2]
\* The range with its two ends exchanged.
get_current_code_range_reversed(c) ==
    <<get_current_code_end(c), get_current_code_start(c)>>
get_current_code_range(c) ==
    <<get_current_code_start(c), get_current_code_end(c)>>

is_node_type(c, ty) == NodeAt(c).type = ty
is_node_type_in(c, tys) == NodeAt(c).type \in tys
get_child_count(c) == NodeAt(c).child_count
get_sibling_count(c) == NodeAt(GotoParent(c)).child_count
has_error(c) == NodeAt(c).err

(***************************************************************************)
(* Results and exceptions.                                                 *)
(***************************************************************************)
Ret(c, v) == [exc |-> "none", cur |-> c, val |-> v]
Ok(r) == r.exc = "none"
Raise(kind, c, msg) ==
    [exc |-> kind, cur |-> c,
     val |-> [msg |-> msg, code_range |-> get_current_code_range(c), at |-> c]]
create_code_error(c, msg) == Raise("CodeError", c, msg)
unreachable(c) == Raise("Unreachable", c, "")
AssertionError(c) == Raise("AssertionError", c, "")
NotImplementedError(c) == Raise("NotImplementedError", c, "")
NonTermination(c) == Raise("NonTermination", c, "")

(***************************************************************************)
(* ParsingFixerRegistry (parser.py:166-194).  _registry is a               *)
(* defaultdict(list): a function from the node types it holds a key for to *)
(* the list of fixers registered under that key.                           *)
(***************************************************************************)
EmptyRegistry == [node_type \in {} |-> <<>>]

\* defaultdict.__getitem__: a missing key is inserted with list() as its
\* value before the value is returned.
defaultdict_getitem(reg, key) ==
    IF key \in DOMAIN reg THEN reg ELSE reg @@ (key :> <<>>)

\* `fixer in fixer_list`: ParsingFixerInterface defines no __eq__, so two
\* fixers are equal when they are the same object.
fixer_in(fixer, fixer_list) ==
    \E i \in 1..Len(fixer_list) : fixer_list[i] = fixer

\* ParsingFixerInterface.can_fix(tree, cursor) of the fixers of the model:
\* one accepts every node, one no node, one the nodes without children.
can_fix(fixer, t, c) ==
    CASE fixer.fixes = "always" -> TRUE
      [] fixer.fixes = "never" -> FALSE
      [] OTHER -> t[c].child_count = 0

\* register without the membership test: the fixer is appended anyway.
register_unchecked(reg, fixer) ==
    LET reg1 == defaultdict_getitem(reg, fixer.node_type)
    IN  [ret |-> TRUE,
         registry |-> [reg1 EXCEPT ![fixer.node_type] = Append(@, fixer)]]

\* register(fixer): [ret, registry] is what it returns and the registry it
\* leaves behind.
register(reg, fixer) ==
    LET node_type == fixer.node_type
        reg1 == defaultdict_getitem(reg, node_type)
        fixer_list == reg1[node_type]
    IN  IF fixer_in(fixer, fixer_list)
        THEN [ret |-> FALSE, registry |-> reg1]
        ELSE [ret |-> TRUE,
              registry |-> [reg1 EXCEPT ![node_type] = Append(fixer_list, fixer)]]

\* lookup_fixer taking the latest-registered fixer that can fix the node.
lookup_fixer_latest(reg, t, node) ==
    IF node = None THEN [ret |-> None, registry |-> reg]
    ELSE LET reg1 == defaultdict_getitem(reg, t[node[1]].type)
             fixer_list == reg1[t[node[1]].type]
             fixing == {i \in 1..Len(fixer_list) :
                           can_fix(fixer_list[i], t, node[1])}
         IN  [ret |-> IF fixing = {} THEN None
                      ELSE Some(fixer_list[CHOOSE i \in fixing :
                                               \A j \in fixing : j <= i]),
              registry |-> reg1]

\* lookup_fixer(tree, cursor): node is cursor.node, an Optional path of t.
\* ret is the Optional fixer returned.
lookup_fixer(reg, t, node) ==
    IF node = None THEN [ret |-> None, registry |-> reg]
    ELSE LET node_type == t[node[1]].type
             reg1 == defaultdict_getitem(reg, node_type)
             fixer_list == reg1[node_type]
             fixing == {i \in 1..Len(fixer_list) :
                           can_fix(fixer_list[i], t, node[1])}
         IN  [ret |-> IF fixing = {} THEN None
                      ELSE Some(fixer_list[CHOOSE i \in fixing :
                                               \A j \in fixing : i <= j]),
              registry |-> reg1]

(***************************************************************************)
(* The grammar is recursive, so the lowering methods call each other.  A   *)
(* call self._m(a) of a method that a method it calls calls back is       *)
(* written Call("m", <<a>>): the method looked up by name on the engine,   *)
(* as Python does; the table of those methods follows the last of them.    *)
(***************************************************************************)
RECURSIVE Call(_, _)

\* A local of a method: Let([x \in {e} |-> body]) is body with x naming the
\* value of e, as an assignment x = e followed by body.
Let(f) == f[CHOOSE d \in DOMAIN f : TRUE]

RECURSIVE parse_preprocess_call(_)
RECURSIVE parse_preprocess_define(_)
RECURSIVE parse_preprocess_function_define(_)
RECURSIVE preprocess_argument_loop(_, _)
RECURSIVE consume_c_declaration_specifiers_loop(_, _, _, _)
RECURSIVE consume_c_type_specifier_qualifier_list_loop(_, _, _, _)

(***************************************************************************)
(* Tokens, identifiers, raw text.                                          *)
(***************************************************************************)
consume_node_with_type(c, node_type) ==
    IF ~is_node_type(c, node_type)
    THEN create_code_error(c, "expect node with type " \o node_type)
    ELSE Ret(GotoNextSibling(c), None)

\* node.text is None only for a tree parsed without its bytes; __init__
\* always parses the file's bytes, so the "empty code region" raise is dead.
consume_raw_content(c) == Ret(GotoNextSibling(c), NodeAt(c).text)

is_identifier(c) == is_node_type(c, "identifier")

consume_tree_sitter_identifier(c) ==
    IF ~is_identifier(c)
    THEN create_code_error(c, "not an identifier node")
    ELSE Ret(GotoNextSibling(c), NodeAt(c).text)

consume_c_identifier(c) ==
    Let([r \in {consume_tree_sitter_identifier(c)} |->
        IF ~Ok(r) THEN r
        ELSE Ret(r.cur, [node |-> "Identifier",
                         code_range |-> get_current_code_range(c),
                         name |-> r.val])])

(***************************************************************************)
(* Preprocessor expressions (#if / #elif conditions).                      *)
(***************************************************************************)
PreprocessPrimitiveType == {"identifier", "number_literal", "char_literal"}
PreprocessUnaryOperator == {"!", "~", "-", "+"}
PreprocessBinaryOperator ==
    {"+", "-", "*", "/", "%", "||", "&&", "|", "^", "&", "==", "!=",
     ">", ">=", "<=", "<", "<<", ">>"}

is_preprocess_primitive_expression(c) ==
    is_node_type_in(c, PreprocessPrimitiveType)

consume_preprocess_primitive(c) ==
    IF ~is_preprocess_primitive_expression(c) THEN AssertionError(c)
    ELSE IF is_identifier(c)
    THEN Let([r \in {consume_tree_sitter_identifier(c)} |->
             IF ~Ok(r) THEN r
             ELSE Ret(r.cur, [node |-> "PreprocessPrimitive",
                              code_range |-> get_current_code_range(c),
                              type_ |-> "Identifier", value |-> r.val])])
    ELSE \* number literals and char literals are both tagged NumberLiteral
         Let([r \in {consume_raw_content(c)} |->
             Ret(r.cur, [node |-> "PreprocessPrimitive",
                         code_range |-> get_current_code_range(c),
                         type_ |-> "NumberLiteral", value |-> r.val])])

preprocess_argument_loop(c, acc) ==
    IF is_node_type(c, ")") THEN Ret(c, acc)
    ELSE Let([r1 \in {consume_node_with_type(c, ",")} |->
         Let([r2 \in {IF Ok(r1) THEN Call("consume_preprocess_expression", <<r1.cur>>) ELSE r1} |->
             IF ~Ok(r2) THEN r2
             ELSE IF r2.cur = c THEN NonTermination(c)
             ELSE preprocess_argument_loop(r2.cur, Append(acc, r2.val))])])

consume_preprocess_argument_list(c) ==
    IF ~is_node_type(c, "argument_list") THEN AssertionError(c)
    ELSE LET c1 == GotoFirstChild(c)
         IN  Let([r1 \in {IF ~is_node_type(c1, ")")
                          THEN Call("consume_preprocess_expression", <<c1>>)
                          ELSE Ret(c1, None)} |->
         Let([r2 \in {IF ~Ok(r1) THEN r1
                      ELSE preprocess_argument_loop(
                               r1.cur,
                               IF is_node_type(c1, ")") THEN <<>> ELSE <<r1.val>>)} |->
             IF ~Ok(r2) THEN r2
             ELSE Ret(GotoNextSibling(GotoParent(r2.cur)), r2.val)])])

is_preprocess_call_expression(c) == is_node_type(c, "preproc_call_expression")

consume_preprocess_call_expression(c) ==
    IF ~is_preprocess_call_expression(c) THEN AssertionError(c)
    ELSE Let([r1 \in {consume_tree_sitter_identifier(GotoFirstChild(c))} |->
         Let([r2 \in {IF Ok(r1) THEN consume_preprocess_argument_list(r1.cur) ELSE r1} |->
             IF ~Ok(r2) THEN r2
             ELSE Ret(GotoNextSibling(GotoParent(r2.cur)),
                      [node |-> "PreprocessCallExpression",
                       code_range |-> get_current_code_range(c),
                       callee |-> r1.val, arguments |-> r2.val])])])

is_preprocess_defined_call(c) == is_node_type(c, "preproc_defined")

\* The method never descends into the preproc_defined node: it looks for the
\* `#defined` token on the node it was entered with.
consume_preprocess_defined(c) ==
    IF ~is_preprocess_defined_call(c) THEN AssertionError(c)
    ELSE Let([r1 \in {consume_node_with_type(c, "#defined")} |->
         Let([paren \in {Ok(r1) /\ is_node_type(r1.cur, "(")} |->
         Let([r2 \in {IF ~Ok(r1) THEN r1
                      ELSE IF paren THEN consume_node_with_type(r1.cur, "(")
                      ELSE r1} |->
         Let([r3 \in {IF Ok(r2) THEN consume_tree_sitter_identifier(r2.cur) ELSE r2} |->
         Let([r4 \in {IF Ok(r3) /\ paren THEN consume_node_with_type(r3.cur, ")")
                      ELSE r3} |->
             IF ~Ok(r4) THEN r4
             ELSE Ret(r4.cur,
                      [node |-> "PreprocessDefined",
                       code_range |-> <<get_current_code_start(c),
                                   IF paren THEN get_current_code_end(r3.cur)
                                   ELSE get_current_code_end(r2.cur)>>,
                       identifier |-> r3.val])])])])])])

is_preprocess_unary_expression(c) == is_node_type(c, "preproc_unary_expression")

consume_preprocess_unary_operator(c) ==
    IF ~is_node_type_in(c, PreprocessUnaryOperator) THEN AssertionError(c)
    ELSE Ret(GotoNextSibling(c), NodeAt(c).type)

consume_preprocess_unary_expression(c) ==
    IF ~is_preprocess_unary_expression(c) THEN AssertionError(c)
    ELSE Let([r1 \in {consume_preprocess_unary_operator(GotoFirstChild(c))} |->
         Let([r2 \in {IF Ok(r1) THEN Call("consume_preprocess_expression", <<r1.cur>>) ELSE r1} |->
             IF ~Ok(r2) THEN r2
             ELSE Ret(GotoNextSibling(GotoParent(r2.cur)),
                      [node |-> "PreprocessUnaryExpression",
                       code_range |-> get_current_code_range(c),
                       operator |-> r1.val, operand |-> r2.val])])])

is_preprocess_binary_expression(c) ==
    is_node_type(c, "preproc_binary_expression")

consume_preprocess_binary_operator(c) ==
    IF ~is_node_type_in(c, PreprocessBinaryOperator) THEN AssertionError(c)
    ELSE Ret(GotoNextSibling(c), NodeAt(c).type)

consume_preprocess_binary_expression(c) ==
    IF ~is_preprocess_binary_expression(c) THEN AssertionError(c)
    ELSE Let([r1 \in {Call("consume_preprocess_expression", <<GotoFirstChild(c)>>)} |->
         Let([r2 \in {IF Ok(r1) THEN consume_preprocess_binary_operator(r1.cur) ELSE r1} |->
         Let([r3 \in {IF Ok(r2) THEN Call("consume_preprocess_expression", <<r2.cur>>) ELSE r2} |->
             IF ~Ok(r3) THEN r3
             ELSE Ret(GotoNextSibling(GotoParent(r3.cur)),
                      [node |-> "PreprocessBinaryExpression",
                       code_range |-> get_current_code_range(c),
                       operator |-> r2.val, lhs |-> r1.val, rhs |-> r3.val])])])])

is_preprocess_parenthesized_expression(c) ==
    is_node_type(c, "preproc_parenthesized_expression")

consume_preprocess_parenthesized_expression(c) ==
    IF ~is_preprocess_parenthesized_expression(c) THEN AssertionError(c)
    ELSE Let([r1 \in {consume_node_with_type(GotoFirstChild(c), "(")} |->
         Let([r2 \in {IF Ok(r1) THEN Call("consume_preprocess_expression", <<r1.cur>>) ELSE r1} |->
         Let([r3 \in {IF Ok(r2) THEN consume_node_with_type(r2.cur, ")") ELSE r2} |->
             IF ~Ok(r3) THEN r3
             ELSE Ret(GotoNextSibling(GotoParent(r3.cur)),
                      [node |-> "ParenthesizedPreprocessExpression",
                       code_range |-> get_current_code_range(c),
                       expression |-> r2.val])])])])

consume_preprocess_expression(c) ==
    IF is_preprocess_primitive_expression(c)
    THEN consume_preprocess_primitive(c)
    ELSE IF is_preprocess_call_expression(c)
    THEN consume_preprocess_call_expression(c)
    ELSE IF is_preprocess_defined_call(c)
    THEN consume_preprocess_defined(c)
    ELSE IF is_preprocess_unary_expression(c)
    THEN consume_preprocess_unary_expression(c)
    ELSE IF is_preprocess_binary_expression(c)
    THEN consume_preprocess_binary_expression(c)
    ELSE IF is_preprocess_parenthesized_expression(c)
    THEN consume_preprocess_parenthesized_expression(c)
    ELSE unreachable(c)

(***************************************************************************)
(* Declaration specifiers: storage class, qualifiers, type specifiers.     *)
(***************************************************************************)
\* _get_first_child(): children[0] of the current node (these nodes always
\* carry their keyword as first child).
get_first_child(c) == NodeAt(Append(c, 1))

is_c_storage_class_specifier(c) ==
    /\ is_node_type(c, "storage_class_specifier")
    /\ get_first_child(c).type \in
           {"extern", "static", "auto", "register", "thread_local", "__thread"}

consume_c_storage_class_specifier(c) ==
    LET specifier == get_first_child(c).type
    IN  Let([kind \in {IF specifier = "extern" THEN "Extern"
                       ELSE IF specifier = "static" THEN "Static"
                       ELSE IF specifier = "auto" THEN "Auto"
                       ELSE IF specifier = "register" THEN "Register"
                       ELSE IF specifier \in {"thread_local", "__thread"}
                       THEN "ThreadLocal"
                       ELSE "?"} |->
        IF kind = "?" THEN unreachable(c)
        ELSE Ret(GotoNextSibling(c),
                 [node |-> "StorageClassSpecifier",
                  code_range |-> get_current_code_range(c), kind |-> kind])])

is_c_type_qualifier(c) ==
    /\ is_node_type(c, "type_qualifier")
    /\ get_first_child(c).type \in
           {"const", "volatile", "restrict", "__restrict__", "_Atomic", "_Nonnull"}

consume_c_type_qualifier(c) ==
    LET qualifier == get_first_child(c).type
    IN  Let([kind \in {IF qualifier = "const" THEN "Const"
                       ELSE IF qualifier = "volatile" THEN "Volatile"
                       ELSE IF qualifier \in {"restrict", "__restrict__"} THEN "Restrict"
                       ELSE IF qualifier = "_Atomic" THEN "Atomic"
                       ELSE IF qualifier = "_Nonnull" THEN "Nonnull"
                       ELSE "?"} |->
        IF kind = "?"
        THEN create_code_error(c, "unsupported type qualifier " \o qualifier)
        ELSE Ret(GotoNextSibling(c),
                 [node |-> "TypeQualifier",
                  code_range |-> get_current_code_range(c), kind |-> kind])])

is_c_struct_or_union_specifier(c) ==
    is_node_type_in(c, {"struct_specifier", "union_specifier"})
is_c_enum_specifier(c) == is_node_type(c, "enum_specifier")
is_tree_sitter_macro_type_specifier(c) == is_node_type(c, "macro_type_specifier")
is_tree_sitter_sized_type_specifier(c) == is_node_type(c, "sized_type_specifier")
is_c_primitive_type_specifier(c) == is_node_type(c, "primitive_type")
is_tree_sitter_type_identifier(c) == is_node_type(c, "type_identifier")

is_c_type_specifier(c) ==
    \/ is_c_struct_or_union_specifier(c)
    \/ is_c_enum_specifier(c)
    \/ is_tree_sitter_macro_type_specifier(c)
    \/ is_tree_sitter_sized_type_specifier(c)
    \/ is_c_primitive_type_specifier(c)
    \/ is_tree_sitter_type_identifier(c)

consume_tree_sitter_type_identifier_as_c_identifier(c) ==
    IF ~is_tree_sitter_type_identifier(c) THEN AssertionError(c)
    ELSE Let([r \in {consume_raw_content(c)} |->
             Ret(r.cur, [node |-> "Identifier",
                         code_range |-> get_current_code_range(c), name |-> r.val])])

consume_c_type_qualifier_list(c, at_most) ==
    LET RECURSIVE loop(_, _, _)
        loop(cc, count, res) ==
            IF count < at_most /\ is_c_type_qualifier(cc)
            THEN Let([r \in {consume_c_type_qualifier(cc)} |->
                     IF ~Ok(r) THEN r
                     ELSE loop(r.cur, count + 1, Append(res, r.val))])
            ELSE Ret(cc, res)
    IN  loop(c, 0, <<>>)

\* A Python str and an Enum member: the member is not its value, so a str
\* never equals it.
PyStr(s) == <<"str", s>>
TreeSitterCPrimitivType(v) == <<"TreeSitterCPrimitivType", v>>

consume_c_primitive_type_specifier(c) ==
    IF ~is_c_primitive_type_specifier(c) THEN AssertionError(c)
    ELSE Let([r \in {consume_raw_content(c)} |->
         Let([type_ \in {PyStr(r.val)} |->
         LET rg == get_current_code_range(c)
             prim(k) == Ret(r.cur, [node |-> "PrimitiveTypeSpecifier",
                                    code_range |-> rg, kind |-> k])
         IN  IF type_ = TreeSitterCPrimitivType("char") THEN prim("Char")
             ELSE IF type_ = TreeSitterCPrimitivType("int") THEN prim("Int")
             ELSE IF type_ = TreeSitterCPrimitivType("float") THEN prim("Float")
             ELSE IF type_ = TreeSitterCPrimitivType("double") THEN prim("Double")
             ELSE IF type_ = TreeSitterCPrimitivType("void") THEN prim("Void")
             ELSE Ret(r.cur, [node |-> "TypedefName", code_range |-> rg,
                              type_identifier |-> r.val])])])

consume_c_typedef_name(c) ==
    IF ~is_tree_sitter_type_identifier(c) THEN AssertionError(c)
    ELSE Let([r \in {consume_raw_content(c)} |->
             Ret(r.cur, [node |-> "TypedefName",
                         code_range |-> get_current_code_range(c),
                         type_identifier |-> r.val])])

is_tree_sitter_sized_type_item(c) ==
    is_node_type_in(c, {"signed", "unsigned", "long", "short"})

consume_tree_sitter_size_type_item(c) ==
    Ret(GotoNextSibling(c),
        [node |-> "PrimitiveTypeSpecifier",
         code_range |-> get_current_code_range(c), kind |-> NodeAt(c).type])

\* Returns the list of fragments of the run (val is a sequence of nodes).
consume_tree_sitter_sized_type_specifier(c) ==
    LET count == get_child_count(c)
        RECURSIVE items(_, _, _)
        items(cc, index, acc) ==
            IF index < count /\ is_tree_sitter_sized_type_item(cc)
            THEN Let([r \in {consume_tree_sitter_size_type_item(cc)} |->
                     items(r.cur, index + 1, Append(acc, r.val))])
            ELSE Ret(cc, [index |-> index, acc |-> acc])
        RECURSIVE quals(_, _, _)
        quals(cc, index, acc) ==
            IF index < count /\ is_c_type_qualifier(cc)
            THEN Let([r \in {consume_c_type_qualifier(cc)} |->
                     IF ~Ok(r) THEN r
                     ELSE quals(r.cur, index + 1, Append(acc, r.val))])
            ELSE Ret(cc, [index |-> index, acc |-> acc])
    IN  Let([r1 \in {items(GotoFirstChild(c), 0, <<>>)} |->
    Let([r2 \in {quals(r1.cur, r1.val.index, r1.val.acc)} |->
    Let([r3 \in {IF ~Ok(r2) THEN r2
                 ELSE IF is_tree_sitter_type_identifier(r2.cur)
                 THEN consume_c_typedef_name(r2.cur)
                 ELSE IF is_c_primitive_type_specifier(r2.cur)
                 THEN consume_c_primitive_type_specifier(r2.cur)
                 ELSE Ret(r2.cur, None)} |->
    Let([typed \in {Ok(r2) /\ (\/ is_tree_sitter_type_identifier(r2.cur)
                               \/ is_c_primitive_type_specifier(r2.cur))} |->
    Let([r4 \in {IF ~Ok(r3) THEN r3
                 ELSE items(r3.cur,
                            IF typed THEN r2.val.index + 1 ELSE r2.val.index,
                            IF typed THEN Append(r2.val.acc, r3.val)
                            ELSE r2.val.acc)} |->
        IF ~Ok(r4) THEN r4
        ELSE Ret(GotoNextSibling(GotoParent(r4.cur)), r4.val.acc)])])])])])

is_c_function_specifier(c) ==
    /\ is_node_type_in(c, {"storage_class_specifier", "type_qualifier"})
    /\ is_node_type_in(GotoFirstChild(c),
                       {"inline", "__inline", "__line__", "_Noreturn"})

consume_c_function_specifier(c) ==
    LET c1 == GotoFirstChild(c)
        rg == get_current_code_range(c)
    IN  IF is_node_type_in(c1, {"inline", "__inline", "__line__"})
        THEN Ret(GotoNextSibling(GotoParent(c1)),
                 [node |-> "FunctionSpecifier", code_range |-> rg,
                  kind |-> "Inline"])
        ELSE IF ~is_node_type(c1, "_Noreturn") THEN AssertionError(c1)
        ELSE Ret(GotoNextSibling(GotoParent(c1)),
                 [node |-> "FunctionSpecifier", code_range |-> rg,
                  kind |-> "Noreturn"])

\* The C expression grammar is not implemented: both the predicate and the
\* consumer raise.
is_c_expression(c) == NotImplementedError(c)
consume_c_expression(c) == NotImplementedError(c)

is_c_alignment_specifier(c) == is_node_type(c, "alignas_qualifier")

\* The keyword is asserted, not consumed: the `(` is then looked for on it.
consume_c_alignment_specifier(c) ==
    LET c1 == GotoFirstChild(c)
    IN  Let([r1 \in {IF ~is_node_type_in(c1, {"alignas", "_Alignas"})
                     THEN AssertionError(c1)
                     ELSE consume_node_with_type(c1, "(")} |->
    Let([r2 \in {IF Ok(r1) THEN is_c_expression(r1.cur) ELSE r1} |->
        r2])])

is_c_declaration_specifier(c) ==
    \/ is_c_storage_class_specifier(c)
    \/ is_c_type_specifier(c)
    \/ is_c_type_qualifier(c)
    \/ is_c_function_specifier(c)
    \/ is_c_alignment_specifier(c)

consume_c_declaration_specifier(c) ==
    IF is_c_storage_class_specifier(c) THEN consume_c_storage_class_specifier(c)
    ELSE IF is_c_type_specifier(c) THEN Call("consume_c_type_specifier", <<c>>)
    ELSE IF is_c_type_qualifier(c) THEN consume_c_type_qualifier(c)
    ELSE IF is_c_function_specifier(c) THEN consume_c_function_specifier(c)
    ELSE IF is_c_alignment_specifier(c) THEN consume_c_alignment_specifier(c)
    ELSE unreachable(c)

consume_c_declaration_specifiers_loop(c, at_most, count, specifiers) ==
    IF count < at_most /\ is_c_declaration_specifier(c)
    THEN IF is_tree_sitter_sized_type_specifier(c)
         THEN Let([r \in {consume_tree_sitter_sized_type_specifier(c)} |->
                  IF ~Ok(r) THEN r
                  ELSE consume_c_declaration_specifiers_loop(
                           r.cur, at_most, count + Len(r.val),
                           specifiers \o r.val)])
         ELSE Let([r \in {consume_c_declaration_specifier(c)} |->
                  IF ~Ok(r) THEN r
                  ELSE consume_c_declaration_specifiers_loop(
                           r.cur, at_most, count + 1, Append(specifiers, r.val))])
    ELSE Ret(c, specifiers)

consume_c_declaration_specifiers(c, at_most) ==
    consume_c_declaration_specifiers_loop(c, at_most, 0, <<>>)

consume_c_type_specifier_qualifier_list_loop(c, at_most, count, res) ==
    IF count < at_most
    THEN IF is_c_type_specifier(c)
         THEN Let([r \in {Call("consume_c_type_specifier", <<c>>)} |->
                  IF ~Ok(r) THEN r
                  ELSE consume_c_type_specifier_qualifier_list_loop(
                           r.cur, at_most, count + 1, Append(res, r.val))])
         ELSE IF is_c_type_qualifier(c)
         THEN Let([r \in {consume_c_type_qualifier(c)} |->
                  IF ~Ok(r) THEN r
                  ELSE consume_c_type_specifier_qualifier_list_loop(
                           r.cur, at_most, count + 1, Append(res, r.val))])
         ELSE Ret(c, res)
    ELSE Ret(c, res)

consume_c_type_specifier_qualifier_list(c, at_most) ==
    consume_c_type_specifier_qualifier_list_loop(c, at_most, 0, <<>>)

(***************************************************************************)
(* Attributes, parameters, type names, abstract declarators.               *)
(***************************************************************************)
is_c_attribute(c) == is_node_type(c, "attribute_specifier")

consume_c_argument_list(c) ==
    IF ~is_node_type(c, "argument_list") THEN AssertionError(c)
    ELSE Let([r1 \in {consume_node_with_type(GotoFirstChild(c), "(")} |->
         Let([r2 \in {IF ~Ok(r1) THEN r1
                      ELSE IF ~is_node_type(r1.cur, ")")
                      THEN consume_c_expression(r1.cur)
                      ELSE Ret(r1.cur, None)} |->
         Let([r3 \in {IF Ok(r2) THEN consume_node_with_type(r2.cur, ")") ELSE r2} |->
             IF ~Ok(r3) THEN r3
             ELSE Ret(GotoNextSibling(GotoParent(r3.cur)), <<>>)])])])

consume_c_attribute(c) ==
    Let([r1 \in {consume_node_with_type(GotoFirstChild(c), "__attribute__")} |->
    Let([r2 \in {IF Ok(r1) THEN consume_node_with_type(r1.cur, "(") ELSE r1} |->
    Let([r3 \in {IF Ok(r2) THEN consume_c_argument_list(r2.cur) ELSE r2} |->
    Let([r4 \in {IF Ok(r3) THEN consume_node_with_type(r3.cur, ")") ELSE r3} |->
        IF ~Ok(r4) THEN r4
        ELSE Ret(GotoNextSibling(GotoParent(r4.cur)),
                 [node |-> "Attribute", code_range |-> get_current_code_range(c),
                  arguments |-> Some(r3.val)])])])])])

try_consume_c_attribute_list(c, at_most) ==
    LET RECURSIVE loop(_, _, _)
        loop(cc, count, list_) ==
            IF count < at_most /\ is_c_attribute(cc)
            THEN Let([r \in {consume_c_attribute(cc)} |->
                     IF ~Ok(r) THEN r
                     ELSE loop(r.cur, count + 1, Append(list_, r.val))])
            ELSE Ret(cc, IF list_ # <<>> THEN Some(list_) ELSE None)
    IN  loop(c, 0, <<>>)

AbstractPointerDeclaratorType == "abstract_pointer_declarat"
TreeSitterAbstractDeclaratorType ==
    {AbstractPointerDeclaratorType, "abstract_function_declarator",
     "abstract_array_declarator", "abstract_parenthesized_declarator"}

is_c_abstract_declarator(c) == is_node_type_in(c, TreeSitterAbstractDeclaratorType)
is_c_declaration(c) == is_node_type(c, "declaration")

try_consume_c_abstract_declarator(c) ==
    IF ~is_c_abstract_declarator(c) THEN Ret(c, None)
    ELSE Let([r \in {Call("consume_c_abstract_declarator", <<c>>)} |->
             IF ~Ok(r) THEN r ELSE Ret(r.cur, Some(r.val))])

consume_c_parameter_declaration(c) ==
    LET c1 == GotoFirstChild(c)
        sibling_count == get_sibling_count(c1)
    IN  Let([r1 \in {consume_c_declaration_specifiers(c1, sibling_count)} |->
    Let([r2 \in {IF ~Ok(r1) THEN r1
                 ELSE IF is_c_declaration(r1.cur)
                 THEN Let([d \in {Call("consume_tree_sitter_declarator", <<r1.cur>>)} |->
                          IF Ok(d) THEN Ret(d.cur, Some(d.val)) ELSE d])
                 ELSE IF is_c_abstract_declarator(r1.cur)
                 THEN Let([d \in {Call("consume_c_abstract_declarator", <<r1.cur>>)} |->
                          IF Ok(d) THEN Ret(d.cur, Some(d.val)) ELSE d])
                 ELSE Ret(r1.cur, None)} |->
    Let([r3 \in {IF ~Ok(r2) THEN r2
                 ELSE try_consume_c_attribute_list(
                          r2.cur,
                          IF r2.val # None
                          THEN sibling_count - Len(r1.val) - 1 ELSE 0)} |->
        IF ~Ok(r3) THEN r3
        ELSE Ret(GotoNextSibling(GotoParent(r3.cur)),
                 [node |-> "ParameterDeclaration",
                  code_range |-> get_current_code_range(c),
                  specifiers |-> r1.val, declarator |-> r2.val,
                  attribute_list |-> r3.val])])])])

is_c_parameter_declaration(c) == is_node_type(c, "parameter_declaration")

\* val is [list, variadic].
consume_c_parameter_type_list(c) ==
    IF ~is_node_type(c, "parameter_list") THEN AssertionError(c)
    ELSE LET RECURSIVE loop(_, _, _)
             loop(cc, list_, variadic) ==
                 IF is_node_type(cc, ")")
                 THEN Ret(cc, [list |-> list_, variadic |-> variadic])
                 ELSE Let([k \in {consume_node_with_type(cc, ",")} |->
                      Let([r \in {IF ~Ok(k) THEN k
                                  ELSE IF is_c_parameter_declaration(k.cur)
                                  THEN Call("consume_c_parameter_declaration", <<k.cur>>)
                                  ELSE consume_node_with_type(
                                           k.cur, "variadic_parameter")} |->
                          IF ~Ok(r) THEN r
                          ELSE IF is_c_parameter_declaration(k.cur)
                          THEN loop(r.cur, Append(list_, r.val), variadic)
                          ELSE loop(r.cur, list_, TRUE)])])
         IN  Let([r1 \in {consume_node_with_type(GotoFirstChild(c), "(")} |->
         Let([r2 \in {IF ~Ok(r1) THEN r1
                      ELSE IF ~is_node_type(r1.cur, ")")
                      THEN Call("consume_c_parameter_declaration", <<r1.cur>>)
                      ELSE Ret(r1.cur, None)} |->
         Let([r3 \in {IF ~Ok(r2) THEN r2
                      ELSE loop(r2.cur,
                                IF is_node_type(r1.cur, ")") THEN <<>>
                                ELSE <<r2.val>>,
                                FALSE)} |->
         Let([r4 \in {IF Ok(r3) THEN consume_node_with_type(r3.cur, ")") ELSE r3} |->
             IF ~Ok(r4) THEN r4
             ELSE Ret(GotoNextSibling(GotoParent(r4.cur)), r3.val)])])])])

consume_c_abstract_pointer_declarator(c) ==
    LET child_count == get_child_count(c)
    IN  Let([r1 \in {consume_node_with_type(GotoFirstChild(c), "*")} |->
    Let([r2 \in {IF ~Ok(r1) THEN r1
                 ELSE IF is_node_type(r1.cur, "ms_pointer_modifier")
                 THEN create_code_error(r1.cur, "MSCV point modifier is not supported")
                 ELSE consume_c_type_qualifier_list(r1.cur, child_count - 1)} |->
    Let([r3 \in {IF Ok(r2) THEN try_consume_c_abstract_declarator(r2.cur) ELSE r2} |->
        IF ~Ok(r3) THEN r3
        ELSE Ret(GotoNextSibling(GotoParent(r3.cur)),
                 [node |-> "AbstractPointerDeclarator",
                  code_range |-> get_current_code_range(c),
                  type_qualifier_list |->
                      IF r2.val # <<>> THEN Some(r2.val) ELSE None,
                  declarator |-> r3.val])])])])

consume_c_abstract_function_declarator(c) ==
    Let([r1 \in {try_consume_c_abstract_declarator(GotoFirstChild(c))} |->
    Let([r2 \in {IF Ok(r1) THEN Call("consume_c_parameter_type_list", <<r1.cur>>) ELSE r1} |->
        IF ~Ok(r2) THEN r2
        ELSE Ret(GotoNextSibling(GotoParent(r2.cur)),
                 [node |-> "AbstractFunctionDeclarator",
                  code_range |-> get_current_code_range(c),
                  declarator |-> r1.val,
                  parameter_type_list |-> Some(r2.val.list),
                  is_variadic |-> r2.val.variadic])])])

\* The tokens between the brackets taken for an unknown size, unread.
abstract_array_size_unread(c, sibling_count) ==
    Ret(c, [kind |-> "Unknown", qualifiers |-> None, expression |-> None])

\* Lines 1278-1306: the tokens between `[` and `]` of an abstract array
\* declarator; val is [kind, qualifiers, expression].
abstract_array_size(c, sibling_count) ==
    LET size(k, q, e) == [kind |-> k, qualifiers |-> q, expression |-> e]
    IN  IF is_node_type(c, "*")
        THEN Ret(c, size("VariableUnknown", None, None))
        ELSE IF is_node_type(c, "static")
        THEN Let([r1 \in {consume_node_with_type(c, "static")} |->
             Let([r2 \in {IF is_c_type_qualifier(r1.cur)
                          THEN consume_c_type_qualifier_list(r1.cur, sibling_count)
                          ELSE Ret(r1.cur, None)} |->
             Let([r3 \in {IF Ok(r2) THEN consume_c_expression(r2.cur) ELSE r2} |->
                 IF ~Ok(r3) THEN r3
                 ELSE Ret(r3.cur, size("StaticExpression",
                                       IF is_c_type_qualifier(r1.cur)
                                       THEN Some(r2.val) ELSE None,
                                       Some(r3.val)))])])])
        ELSE IF is_c_type_qualifier(c)
        THEN Let([r1 \in {consume_c_type_qualifier_list(c, sibling_count)} |->
                 IF ~Ok(r1) THEN r1
                 ELSE IF is_node_type(r1.cur, "static")
                 THEN Let([r2 \in {consume_c_expression(
                                       consume_node_with_type(r1.cur, "static").cur)} |->
                          IF ~Ok(r2) THEN r2
                          ELSE Ret(r2.cur, size("StaticExpression",
                                                Some(r1.val), Some(r2.val)))])
                 ELSE Let([t \in {is_c_expression(r1.cur)} |->
                      Let([r2 \in {IF Ok(t) /\ t.val
                                   THEN consume_c_expression(r1.cur) ELSE t} |->
                          IF ~Ok(r2) THEN r2
                          ELSE IF t.val
                          THEN Ret(r2.cur, size("VariableExpression",
                                                Some(r1.val), Some(r2.val)))
                          ELSE IF ~is_node_type(r1.cur, "]")
                          THEN AssertionError(r1.cur)
                          ELSE Ret(r1.cur, size("Unknown", Some(r1.val), None))])])])
        ELSE LET t == is_c_expression(c)
             IN  Let([r2 \in {IF Ok(t) /\ t.val THEN consume_c_expression(c) ELSE t} |->
                 IF ~Ok(r2) THEN r2
                 ELSE IF t.val
                 THEN Ret(r2.cur, size("VariableExpression", None, Some(r2.val)))
                 ELSE IF ~is_node_type(c, "]") THEN AssertionError(c)
                 ELSE Ret(c, size("Unknown", None, None))])

consume_c_abstract_array_declarator(c) ==
    LET c1 == GotoFirstChild(c)
        sibling_count == get_sibling_count(c1)
    IN  Let([r1 \in {try_consume_c_abstract_declarator(c1)} |->
    Let([r2 \in {IF Ok(r1) THEN consume_node_with_type(r1.cur, "[") ELSE r1} |->
    Let([r3 \in {IF Ok(r2) THEN abstract_array_size(r2.cur, sibling_count) ELSE r2} |->
    Let([r4 \in {IF Ok(r3) THEN consume_node_with_type(r3.cur, "]") ELSE r3} |->
        IF ~Ok(r4) THEN r4
        ELSE Ret(GotoNextSibling(GotoParent(r4.cur)),
                 [node |-> "AbstractArrayDeclarator",
                  code_range |-> get_current_code_range(c),
                  declarator |-> r1.val,
                  array_size |->
                      [node |-> "ArraySize",
                       code_range |-> <<get_current_code_start(r1.cur),
                                   get_current_code_end(r3.cur)>>,
                       kind |-> r3.val.kind,
                       type_qualifiers |-> r3.val.qualifiers,
                       expression |-> r3.val.expression]])])])])])

consume_c_abstract_parenthesized_declarator(c) ==
    Let([r1 \in {consume_node_with_type(GotoFirstChild(c), "(")} |->
    Let([r2 \in {IF ~Ok(r1) THEN r1
                 ELSE IF is_node_type(r1.cur, "ms_call_modifier")
                 THEN create_code_error(r1.cur, "MSVC call modifier is not supported")
                 ELSE Call("consume_c_abstract_declarator", <<r1.cur>>)} |->
    Let([r3 \in {IF Ok(r2) THEN consume_node_with_type(r2.cur, ")") ELSE r2} |->
        IF ~Ok(r3) THEN r3
        ELSE Ret(GotoNextSibling(GotoParent(r3.cur)),
                 [node |-> "AbstractParenthesizedDeclarator",
                  code_range |-> get_current_code_range(c),
                  declarator |-> r2.val])])])])

consume_c_abstract_declarator(c) ==
    IF is_node_type(c, AbstractPointerDeclaratorType)
    THEN consume_c_abstract_pointer_declarator(c)
    ELSE IF is_node_type(c, "abstract_function_declarator")
    THEN consume_c_abstract_function_declarator(c)
    ELSE IF is_node_type(c, "abstract_array_declarator")
    THEN consume_c_abstract_array_declarator(c)
    ELSE IF is_node_type(c, "abstract_parenthesized_declarator")
    THEN consume_c_abstract_parenthesized_declarator(c)
    ELSE create_code_error(c, "not a C abstract declarator")

consume_c_type_name(c) ==
    LET child_count == get_child_count(c)
    IN  Let([r1 \in {consume_c_type_specifier_qualifier_list(GotoFirstChild(c), child_count)} |->
    Let([r2 \in {IF Ok(r1) THEN try_consume_c_abstract_declarator(r1.cur) ELSE r1} |->
        IF ~Ok(r2) THEN r2
        ELSE Ret(GotoNextSibling(GotoParent(r2.cur)),
                 [node |-> "TypeName", code_range |-> get_current_code_range(c),
                  specifier_qualifier_list |-> r1.val, declarator |-> r2.val])])])

consume_tree_sitter_macro_type_specifier(c) ==
    Let([r1 \in {consume_c_identifier(GotoFirstChild(c))} |->
    Let([r2 \in {IF Ok(r1) THEN consume_node_with_type(r1.cur, "(") ELSE r1} |->
    Let([r3 \in {IF Ok(r2) THEN Call("consume_c_type_name", <<r2.cur>>) ELSE r2} |->
    Let([r4 \in {IF Ok(r3) THEN consume_node_with_type(r3.cur, ")") ELSE r3} |->
        IF ~Ok(r4) THEN r4
        ELSE Ret(GotoNextSibling(GotoParent(r4.cur)),
                 [node |-> "MacroTypeSpecifier",
                  code_range |-> get_current_code_range(c),
                  identifier |-> r1.val, type_name |-> r3.val])])])])])

(***************************************************************************)
(* Named declarators.                                                      *)
(***************************************************************************)
is_tree_sitter_init_declarator(c) == is_node_type(c, "init_declarator")
is_tree_sitter_attributed_declarator(c) == is_node_type(c, "attributed_declarator")
is_tree_sitter_pointer_declarator(c) == is_node_type(c, "pointer_declarator")
is_tree_sitter_function_declarator(c) == is_node_type(c, "function_declarator")
is_tree_sitter_array_declarator(c) == is_node_type(c, "array_declarator")
is_tree_sitter_parenthesized_declarator(c) ==
    is_node_type(c, "parenthesized_declarator")

is_tree_sitter_declarator(c) ==
    \/ is_tree_sitter_init_declarator(c)
    \/ is_tree_sitter_attributed_declarator(c)
    \/ is_tree_sitter_pointer_declarator(c)
    \/ is_tree_sitter_function_declarator(c)
    \/ is_tree_sitter_array_declarator(c)
    \/ is_tree_sitter_parenthesized_declarator(c)
    \/ is_identifier(c)

consume_identifier_as_declarator(c) ==
    Let([r \in {consume_c_identifier(c)} |->
        IF ~Ok(r) THEN r
        ELSE Ret(r.cur, [node |-> "IdentifierDeclarator",
                         code_range |-> r.val.code_range, identifier |-> r.val])])

\* The item loop calls _is_c_expression first, so a list with any item
\* raises; only `{}` gets through.
consume_tree_sitter_initializer_list(c) ==
    Let([r1 \in {consume_node_with_type(GotoFirstChild(c), "{")} |->
    Let([r2 \in {IF ~Ok(r1) THEN r1
                 ELSE IF ~is_node_type(r1.cur, "}") THEN is_c_expression(r1.cur)
                 ELSE Ret(r1.cur, <<>>)} |->
    Let([r3 \in {IF Ok(r2) THEN consume_node_with_type(r2.cur, "}") ELSE r2} |->
        IF ~Ok(r3) THEN r3
        ELSE Ret(GotoNextSibling(GotoParent(r3.cur)),
                 [node |-> "InitializerList",
                  code_range |-> get_current_code_range(c), items |-> <<>>])])])])

consume_c_expression_as_initializer(c) ==
    Let([r \in {consume_c_expression(c)} |->
        IF ~Ok(r) THEN r
        ELSE Ret(r.cur, [node |-> "ExpressionInitializer",
                         code_range |-> r.val.code_range, expression |-> r.val])])

consume_tree_sitter_init_declarator(c) ==
    Let([r1 \in {Call("consume_tree_sitter_declarator", <<GotoFirstChild(c)>>)} |->
    Let([r2 \in {IF Ok(r1) THEN consume_node_with_type(r1.cur, "=") ELSE r1} |->
    Let([t \in {IF Ok(r2) THEN is_c_expression(r2.cur) ELSE r2} |->
    Let([r3 \in {IF ~Ok(t) THEN t
                 ELSE IF t.val THEN consume_c_expression_as_initializer(r2.cur)
                 ELSE consume_tree_sitter_initializer_list(r2.cur)} |->
        IF ~Ok(r3) THEN r3
        ELSE Ret(GotoNextSibling(GotoParent(r3.cur)),
                 [node |-> "InitDeclarator", code_range |-> get_current_code_range(c),
                  declarator |-> r1.val, initializer |-> r3.val])])])])])

consume_tree_sitter_attributed_declarator(c) ==
    create_code_error(c, "declarator with attribute is not supported")

\* A pointer declarator lowered to its inner declarator, the `*` dropped.
pointer_declarator_unwrapped(c) ==
    Let([r \in {Call("consume_tree_sitter_declarator",
                      <<GotoNextSibling(GotoFirstChild(c))>>)} |->
        IF ~Ok(r) THEN r
        ELSE Ret(GotoNextSibling(GotoParent(r.cur)), r.val)])

consume_tree_sitter_pointer_declarator(c) ==
    LET child_count == get_child_count(c)
        c1 == GotoFirstChild(c)
    IN  Let([r1 \in {IF is_node_type(c1, "ms_based_modifier")
                     THEN create_code_error(c1, "MSCV based modifier is not supported")
                     ELSE consume_node_with_type(c1, "*")} |->
    Let([r2 \in {IF ~Ok(r1) THEN r1
                 ELSE IF is_node_type(r1.cur, "ms_pointer_modifier")
                 THEN create_code_error(r1.cur, "MSCV point modifier is not supported")
                 ELSE consume_c_type_qualifier_list(r1.cur, child_count - 1)} |->
    Let([r3 \in {IF Ok(r2) THEN Call("consume_tree_sitter_declarator", <<r2.cur>>) ELSE r2} |->
        IF ~Ok(r3) THEN r3
        ELSE Ret(GotoNextSibling(GotoParent(r3.cur)),
                 [node |-> "PointerDeclarator",
                  code_range |-> get_current_code_range(c),
                  type_qualifier_list |->
                      IF r2.val # <<>> THEN Some(r2.val) ELSE None,
                  declarator |-> r3.val])])])])

consume_tree_sitter_function_declarator(c) ==
    Let([r1 \in {Call("consume_tree_sitter_declarator", <<GotoFirstChild(c)>>)} |->
    Let([r2 \in {IF Ok(r1) THEN Call("consume_c_parameter_type_list", <<r1.cur>>) ELSE r1} |->
        IF ~Ok(r2) THEN r2
        ELSE Ret(GotoNextSibling(GotoParent(r2.cur)),
                 [node |-> "FunctionDeclarator",
                  code_range |-> get_current_code_range(c),
                  declarator |-> r1.val,
                  parameter_type_list |-> Some(r2.val.list),
                  is_variadic |-> r2.val.variadic])])])

\* Lines 1859-1887: the tokens between `[` and `]` of an array declarator;
\* val is [kind, qualifiers, expression].
array_size(c, sibling_count) ==
    LET size(k, q, e) == [kind |-> k, qualifiers |-> q, expression |-> e]
    IN  IF is_node_type(c, "*")
        THEN Ret(c, size("VariableUnknown", None, None))
        ELSE IF is_node_type(c, "static")
        THEN Let([r1 \in {consume_node_with_type(c, "static")} |->
             Let([r2 \in {IF is_c_type_qualifier(r1.cur)
                          THEN consume_c_type_qualifier_list(r1.cur, sibling_count)
                          ELSE Ret(r1.cur, None)} |->
             Let([r3 \in {IF Ok(r2) THEN consume_c_expression(r2.cur) ELSE r2} |->
                 IF ~Ok(r3) THEN r3
                 ELSE Ret(r3.cur, size("StaticExpression",
                                       IF is_c_type_qualifier(r1.cur)
                                       THEN Some(r2.val) ELSE None,
                                       Some(r3.val)))])])])
        ELSE IF is_c_type_qualifier(c)
        THEN Let([r1 \in {consume_c_type_qualifier_list(c, sibling_count)} |->
                 IF ~Ok(r1) THEN r1
                 ELSE IF is_node_type(r1.cur, "static")
                 THEN Let([r2 \in {consume_c_expression(
                                       consume_node_with_type(r1.cur, "static").cur)} |->
                          IF ~Ok(r2) THEN r2
                          ELSE Ret(r2.cur, size("StaticExpression",
                                                Some(r1.val), Some(r2.val)))])
                 ELSE Let([t \in {is_c_expression(r1.cur)} |->
                      Let([r2 \in {IF Ok(t) /\ t.val
                                   THEN consume_c_expression(r1.cur) ELSE t} |->
                          IF ~Ok(r2) THEN r2
                          ELSE IF t.val
                          THEN Ret(r2.cur, size("VariableExpression",
                                                Some(r1.val), Some(r2.val)))
                          ELSE IF ~is_node_type(r1.cur, "]")
                          THEN AssertionError(r1.cur)
                          ELSE Ret(r1.cur, size("Unknown", Some(r1.val), None))])])])
        ELSE LET t == is_c_expression(c)
             IN  Let([r2 \in {IF Ok(t) /\ t.val THEN consume_c_expression(c) ELSE t} |->
                 IF ~Ok(r2) THEN r2
                 ELSE IF t.val
                 THEN Ret(r2.cur, size("VariableExpression", None, Some(r2.val)))
                 ELSE IF ~is_node_type(c, "]") THEN AssertionError(c)
                 ELSE Ret(c, size("Unknown", None, None))])

consume_tree_sitter_array_declarator(c) ==
    LET c1 == GotoFirstChild(c)
        sibling_count == get_sibling_count(c1)
    IN  Let([r1 \in {Call("consume_tree_sitter_declarator", <<c1>>)} |->
    Let([r2 \in {IF Ok(r1) THEN consume_node_with_type(r1.cur, "[") ELSE r1} |->
    Let([r3 \in {IF Ok(r2) THEN array_size(r2.cur, sibling_count) ELSE r2} |->
    Let([r4 \in {IF Ok(r3) THEN consume_node_with_type(r3.cur, "]") ELSE r3} |->
        IF ~Ok(r4) THEN r4
        ELSE Ret(GotoNextSibling(GotoParent(r4.cur)),
                 [node |-> "ArrayDeclarator",
                  code_range |-> get_current_code_range(c),
                  declarator |-> r1.val,
                  array_size |->
                      [node |-> "ArraySize",
                       code_range |-> <<get_current_code_start(r1.cur),
                                   get_current_code_end(r3.cur)>>,
                       kind |-> r3.val.kind,
                       type_qualifiers |-> r3.val.qualifiers,
                       expression |-> r3.val.expression]])])])])])

\* A parenthesized declarator lowered whatever stands after its `(`.
parenthesized_declarator_unchecked(c) ==
    Ret(GotoNextSibling(c),
        [node |-> "ParenthesizedDeclarator",
         code_range |-> get_current_code_range(c), declarator |-> None])

consume_tree_sitter_parenthesized_declarator(c) ==
    Let([r1 \in {consume_node_with_type(GotoFirstChild(c), "(")} |->
    Let([r2 \in {IF ~Ok(r1) THEN r1
                 ELSE IF is_node_type(r1.cur, "ms_call_modifier")
                 THEN create_code_error(r1.cur, "MSVC call modifier is not supported")
                 ELSE Call("consume_tree_sitter_declarator", <<r1.cur>>)} |->
    Let([r3 \in {IF Ok(r2) THEN consume_node_with_type(r2.cur, ")") ELSE r2} |->
        IF ~Ok(r3) THEN r3
        ELSE Ret(GotoNextSibling(GotoParent(r3.cur)),
                 [node |-> "ParenthesizedDeclarator",
                  code_range |-> get_current_code_range(c),
                  declarator |-> r2.val])])])])

consume_tree_sitter_declarator(c) ==
    IF is_identifier(c) THEN consume_identifier_as_declarator(c)
    ELSE IF is_tree_sitter_init_declarator(c)
    THEN consume_tree_sitter_init_declarator(c)
    ELSE IF is_tree_sitter_attributed_declarator(c)
    THEN consume_tree_sitter_attributed_declarator(c)
    ELSE IF is_tree_sitter_pointer_declarator(c)
    THEN Call("consume_tree_sitter_pointer_declarator", <<c>>)
    ELSE IF is_tree_sitter_array_declarator(c)
    THEN Call("consume_tree_sitter_array_declarator", <<c>>)
    ELSE IF is_tree_sitter_parenthesized_declarator(c)
    THEN consume_tree_sitter_parenthesized_declarator(c)
    ELSE create_code_error(c, "unsupported declarator")

(***************************************************************************)
(* Struct, union and enum specifiers.                                      *)
(***************************************************************************)
NewLine == "\n"

is_preprocess_define(c) == is_node_type(c, "preproc_def")
is_preprocess_function_define(c) == is_node_type(c, "preproc_function_def")
is_preprocess_call(c) == is_node_type(c, "preproc_call")

is_preproc_if_field_declaration_list(c) ==
    is_node_type(c, "preproc_if_in_field_declaration_list")
is_preproc_ifdef_field_declaration_list(c) ==
    is_node_type(c, "preproc_ifdef_in_field_declaration_list")

is_tree_sitter_field_declaration(c) ==
    \/ is_node_type(c, "field_declaration")
    \/ is_preprocess_define(c)
    \/ is_preprocess_function_define(c)
    \/ is_preprocess_call(c)
    \/ is_preproc_if_field_declaration_list(c)
    \/ is_preproc_ifdef_field_declaration_list(c)

consume_c_bitfield_caluse(c) ==
    Let([r1 \in {consume_node_with_type(GotoFirstChild(c), ":")} |->
    Let([r2 \in {IF Ok(r1) THEN consume_c_expression(r1.cur) ELSE r1} |->
        IF ~Ok(r2) THEN r2
        ELSE Ret(GotoNextSibling(GotoParent(r2.cur)), r2.val)])])

consume_c_struct_declarator(c) ==
    Let([r1 \in {Call("consume_tree_sitter_declarator", <<c>>)} |->
    Let([r2 \in {IF ~Ok(r1) THEN r1
                 ELSE IF is_node_type(r1.cur, "bitfield_clause")
                 THEN Let([b \in {consume_c_bitfield_caluse(r1.cur)} |->
                          IF Ok(b) THEN Ret(b.cur, Some(b.val)) ELSE b])
                 ELSE Ret(r1.cur, None)} |->
        IF ~Ok(r2) THEN r2
        ELSE Ret(r2.cur,
                 [node |-> "StructDeclarator",
                  code_range |-> <<r1.val.code_range[1],
                              IF r2.val # None THEN r2.val[1].code_range[2]
                              ELSE r1.val.code_range[2]>>,
                  declarator |-> r1.val, bit_width |-> r2.val])])])

\* while self._is_comma(): consume the comma, then a struct declarator.
RECURSIVE struct_declarator_loop(_, _)
struct_declarator_loop(c, declarators) ==
    IF ~is_node_type(c, ",") THEN Ret(c, declarators)
    ELSE Let([r \in {consume_c_struct_declarator(
                         consume_node_with_type(c, ",").cur)} |->
             IF ~Ok(r) THEN r
             ELSE struct_declarator_loop(r.cur, Append(declarators, r.val))])

consume_c_struct_field_declaration(c) ==
    LET c1 == GotoFirstChild(c)
    IN  Let([r1 \in {consume_c_type_specifier_qualifier_list(c1, get_sibling_count(c1))} |->
    Let([r2 \in {IF ~Ok(r1) THEN r1
                 ELSE IF is_tree_sitter_declarator(r1.cur)
                 THEN Let([d \in {consume_c_struct_declarator(r1.cur)} |->
                          IF Ok(d) THEN Ret(d.cur, <<d.val>>) ELSE d])
                 ELSE Ret(r1.cur, <<>>)} |->
    Let([r3 \in {IF Ok(r2) THEN struct_declarator_loop(r2.cur, r2.val) ELSE r2} |->
    Let([r4 \in {IF ~Ok(r3) THEN r3
                 ELSE IF is_c_attribute(r3.cur)
                 THEN Let([a \in {consume_c_attribute(r3.cur)} |->
                          IF Ok(a) THEN Ret(a.cur, Some(a.val)) ELSE a])
                 ELSE Ret(r3.cur, None)} |->
    Let([r5 \in {IF Ok(r4) THEN consume_node_with_type(r4.cur, ";") ELSE r4} |->
        IF ~Ok(r5) THEN r5
        ELSE Ret(GotoNextSibling(GotoParent(r5.cur)),
                 [node |-> "StructField", code_range |-> get_current_code_range(c),
                  specifier_qualifier_list |-> r1.val,
                  declarators |-> r3.val, attribute |-> r4.val])])])])])])

\* `while self._is_tree_sitter_field_declaration(): append(consume())`, the
\* loop the four field groups share, with the consumer each of them calls.
\* A consumer that returns with the cursor where it was makes the next
\* iteration identical to this one: the loop never ends.
field_declaration_loop(c, plain) ==
    LET RECURSIVE loop(_, _)
        loop(cc, declarations) ==
            IF ~is_tree_sitter_field_declaration(cc) THEN Ret(cc, declarations)
            ELSE Let([r \in {IF plain THEN Call("consume_c_struct_field_declaration", <<cc>>)
                             ELSE Call("consume_tree_sitter_field_declaration", <<cc>>)} |->
                     IF ~Ok(r) THEN r
                     ELSE IF r.cur = cc THEN NonTermination(cc)
                     ELSE loop(r.cur, Append(declarations, r.val))])
    IN  loop(c, <<>>)

consume_preproc_field_declaratin_if_group(c) ==
    Let([r1 \in {consume_node_with_type(c, "#if")} |->
    Let([r2 \in {IF Ok(r1) THEN Call("consume_preprocess_expression", <<r1.cur>>) ELSE r1} |->
    Let([r3 \in {IF Ok(r2) THEN consume_node_with_type(r2.cur, NewLine) ELSE r2} |->
    Let([r4 \in {IF Ok(r3) THEN field_declaration_loop(r3.cur, TRUE) ELSE r3} |->
        IF ~Ok(r4) THEN r4
        ELSE Ret(r4.cur,
                 [node |-> "MacroStructDeclarationIfGroup",
                  code_range |-> <<get_current_code_start(c),
                              IF r4.val # <<>>
                              THEN r4.val[Len(r4.val)].code_range[2]
                              ELSE r2.val.code_range[2]>>,
                  declarations |-> Some(r4.val), condition |-> r2.val])])])])])

consume_preproc_field_declaratin_ifdef_group(c) ==
    Let([r1 \in {consume_c_identifier(GotoNextSibling(c))} |->
    Let([r2 \in {IF Ok(r1) THEN field_declaration_loop(r1.cur, TRUE) ELSE r1} |->
        IF ~Ok(r2) THEN r2
        ELSE Ret(r2.cur,
                 [node |-> "MacroStructDeclarationIfdefGroup",
                  code_range |-> <<get_current_code_start(c),
                              IF r2.val # <<>>
                              THEN r2.val[Len(r2.val)].code_range[2]
                              ELSE r1.val.code_range[2]>>,
                  declarations |-> Some(r2.val), identifier |-> r1.val,
                  is_ifndef |-> is_node_type(c, "#ifndef")])])])

consume_preproc_elif_field_declaration_list(c) ==
    Let([r1 \in {consume_node_with_type(GotoFirstChild(c), "#elif")} |->
    Let([r2 \in {IF Ok(r1) THEN Call("consume_preprocess_expression", <<r1.cur>>) ELSE r1} |->
    Let([r3 \in {IF Ok(r2) THEN consume_node_with_type(r2.cur, NewLine) ELSE r2} |->
    Let([r4 \in {IF Ok(r3) THEN field_declaration_loop(r3.cur, FALSE) ELSE r3} |->
        IF ~Ok(r4) THEN r4
        ELSE Ret(GotoNextSibling(GotoParent(r4.cur)),
                 [node |-> "MacroStructDeclarationElifGroup",
                  code_range |-> get_current_code_range(c),
                  declarations |->
                      IF r4.val # <<>> THEN Some(r4.val) ELSE None,
                  condition |-> r2.val])])])])])

consume_preproc_else_field_declaration_list(c) ==
    Let([r1 \in {consume_node_with_type(GotoFirstChild(c), "#else")} |->
    Let([r2 \in {IF Ok(r1) THEN field_declaration_loop(r1.cur, FALSE) ELSE r1} |->
        IF ~Ok(r2) THEN r2
        ELSE Ret(GotoNextSibling(GotoParent(r2.cur)),
                 [node |-> "MacroStructDeclarationElseGroup",
                  code_range |-> get_current_code_range(c),
                  declarations |->
                      IF r2.val # <<>> THEN Some(r2.val) ELSE None])])])

consume_preproc_condtional_field_declaration_list(c) ==
    LET RECURSIVE elif_loop(_, _)
        elif_loop(cc, elif_groups) ==
            IF is_node_type(cc, "preproc_elifdef_in_field_declaration_list")
            THEN create_code_error(cc, "#elifdef or #elifndef is not supported")
            ELSE IF is_node_type(cc, "preproc_elif_in_field_declaration_list")
            THEN Let([r \in {consume_preproc_elif_field_declaration_list(cc)} |->
                     IF ~Ok(r) THEN r
                     ELSE IF r.cur = cc THEN NonTermination(cc)
                     ELSE elif_loop(r.cur, Append(elif_groups, r.val))])
            ELSE Ret(cc, elif_groups)
        c1 == GotoFirstChild(c)
    IN  Let([r1 \in {IF is_preproc_ifdef_field_declaration_list(c)
                     THEN consume_preproc_field_declaratin_ifdef_group(c1)
                     ELSE consume_preproc_field_declaratin_if_group(c1)} |->
    Let([r2 \in {IF Ok(r1) THEN elif_loop(r1.cur, <<>>) ELSE r1} |->
    Let([r3 \in {IF ~Ok(r2) THEN r2
                 ELSE IF is_node_type(r2.cur, "preproc_else_in_field_declaration_list")
                 THEN Let([e \in {consume_preproc_else_field_declaration_list(r2.cur)} |->
                          IF Ok(e) THEN Ret(e.cur, Some(e.val)) ELSE e])
                 ELSE Ret(r2.cur, None)} |->
    Let([r4 \in {IF Ok(r3) THEN consume_node_with_type(r3.cur, "#endif") ELSE r3} |->
        IF ~Ok(r4) THEN r4
        ELSE Ret(GotoNextSibling(GotoParent(r4.cur)),
                 [node |-> "MacroConditionalStructDeclaration",
                  code_range |-> <<r1.val.code_range[1], get_current_code_end(r3.cur)>>,
                  if_group |-> r1.val,
                  elif_groups |-> IF r2.val # <<>> THEN Some(r2.val) ELSE None,
                  else_group |-> r3.val])])])])])

consume_tree_sitter_field_declaration(c) ==
    LET wrap(r, class) ==
            IF ~Ok(r) THEN r
            ELSE Ret(GotoNextSibling(r.cur),
                     [node |-> class, code_range |-> r.val.code_range,
                      directive |-> r.val])
    IN  IF is_node_type(c, "field_declaration")
        THEN Call("consume_c_struct_field_declaration", <<c>>)
        ELSE IF is_preprocess_define(c)
        THEN wrap(parse_preprocess_define(c), "MacroDefStructDeclaration")
        ELSE IF is_preprocess_function_define(c)
        THEN wrap(parse_preprocess_function_define(c),
                  "MacroFunctionDefStructDeclaration")
        ELSE IF is_preprocess_call(c)
        THEN wrap(parse_preprocess_call(c), "MacroDirectiveStructDeclaration")
        ELSE IF \/ is_preproc_if_field_declaration_list(c)
                \/ is_preproc_ifdef_field_declaration_list(c)
        THEN consume_preproc_condtional_field_declaration_list(c)
        ELSE create_code_error(
                 c, "unsupported field declaration of struct or union")

consume_tree_sitter_field_declaration_list(c) ==
    LET RECURSIVE loop(_, _)
        loop(cc, declarations) ==
            IF is_node_type(cc, "}") THEN Ret(cc, declarations)
            ELSE Let([r \in {Call("consume_tree_sitter_field_declaration", <<cc>>)} |->
                     IF ~Ok(r) THEN r
                     ELSE IF r.cur = cc THEN NonTermination(cc)
                     ELSE loop(r.cur, Append(declarations, r.val))])
    IN  Let([r1 \in {consume_node_with_type(GotoFirstChild(c), "{")} |->
    Let([r2 \in {IF Ok(r1) THEN loop(r1.cur, <<>>) ELSE r1} |->
    Let([r3 \in {IF Ok(r2) THEN consume_node_with_type(r2.cur, "}") ELSE r2} |->
        IF ~Ok(r3) THEN r3
        ELSE Ret(GotoNextSibling(GotoParent(r3.cur)), r2.val)])])])

consume_c_struct_or_union_specifier(c) ==
    LET c1 == GotoFirstChild(c)
        is_struct == ~is_node_type(c1, "union_specifier")
    IN  Let([r1 \in {IF is_struct THEN consume_node_with_type(c1, "struct")
                     ELSE consume_node_with_type(c1, "union")} |->
    Let([r2 \in {IF ~Ok(r1) THEN r1
                 ELSE IF is_node_type_in(r1.cur, {"attribute_specifier",
                                                  "ms_declspec_modifier"})
                 THEN create_code_error(r1.cur, "unsupported tree-sitter-c node")
                 ELSE IF is_tree_sitter_type_identifier(r1.cur)
                 THEN Let([i \in {consume_tree_sitter_type_identifier_as_c_identifier(r1.cur)} |->
                          IF Ok(i) THEN Ret(i.cur, Some(i.val)) ELSE i])
                 ELSE Ret(r1.cur, None)} |->
    Let([r3 \in {IF ~Ok(r2) THEN r2
                 ELSE IF is_node_type(r2.cur, "field_declaration_list")
                 THEN Let([d \in {consume_tree_sitter_field_declaration_list(r2.cur)} |->
                          IF Ok(d) THEN Ret(d.cur, Some(d.val)) ELSE d])
                 ELSE Ret(r2.cur, None)} |->
        IF ~Ok(r3) THEN r3
        ELSE IF r2.val = None /\ r3.val = None
        THEN create_code_error(
                 r3.cur,
                 "both identifier and declaration list of "
                     \o (IF is_struct THEN "struct" ELSE "union")
                     \o " are empty")
        ELSE Ret(GotoNextSibling(GotoParent(r3.cur)),
                 [node |-> "StructOrUnionSpecifier",
                  code_range |-> get_current_code_range(c),
                  is_struct |-> is_struct,
                  identifier |-> r2.val, declarations |-> r3.val])])])])

is_tree_sitter_enumerator(c) == is_node_type(c, "enumerator")

consume_tree_sitter_enumerator(c) ==
    Let([r1 \in {consume_c_identifier(GotoFirstChild(c))} |->
    Let([r2 \in {IF ~Ok(r1) THEN r1
                 ELSE IF is_node_type(r1.cur, "=")
                 THEN Let([e \in {consume_c_expression(r1.cur)} |->
                          IF Ok(e) THEN Ret(e.cur, Some(e.val)) ELSE e])
                 ELSE Ret(r1.cur, None)} |->
        IF ~Ok(r2) THEN r2
        ELSE Ret(GotoNextSibling(GotoParent(r2.cur)),
                 [node |-> "Enumerator", code_range |-> get_current_code_range(c),
                  identifier |-> r1.val, expression |-> r2.val])])])

\* `while is_enumerator: append(consume()); if is_comma: consume_comma()`,
\* shared by the #if/#ifdef and #elif enumerator groups.
enumerator_loop(c) ==
    LET RECURSIVE loop(_, _)
        loop(cc, enumerators) ==
            IF ~is_tree_sitter_enumerator(cc) THEN Ret(cc, enumerators)
            ELSE Let([r \in {consume_tree_sitter_enumerator(cc)} |->
                 Let([k \in {IF Ok(r) /\ is_node_type(r.cur, ",")
                             THEN consume_node_with_type(r.cur, ",") ELSE r} |->
                     IF ~Ok(r) THEN r
                     ELSE IF k.cur = cc THEN NonTermination(cc)
                     ELSE loop(k.cur, Append(enumerators, r.val))])])
    IN  loop(c, <<>>)

consume_tree_sitter_preproc_else_enumerator(c) ==
    LET RECURSIVE loop(_, _, _)
        loop(cc, n, enumerators) ==
            IF n = 0 THEN Ret(cc, enumerators)
            ELSE IF is_tree_sitter_enumerator(cc)
            THEN Let([r \in {consume_tree_sitter_enumerator(cc)} |->
                     IF ~Ok(r) THEN r
                     ELSE loop(r.cur, n - 1, Append(enumerators, r.val))])
            ELSE IF ~is_node_type(cc, ",") THEN AssertionError(cc)
            ELSE loop(consume_node_with_type(cc, ",").cur, n - 1, enumerators)
    IN  Let([r1 \in {consume_node_with_type(GotoFirstChild(c), "#else")} |->
    Let([r2 \in {IF Ok(r1)
                 THEN loop(r1.cur, get_sibling_count(r1.cur) - 1, <<>>) ELSE r1} |->
        IF ~Ok(r2) THEN r2
        ELSE Ret(GotoNextSibling(GotoParent(r2.cur)),
                 [node |-> "MacroEnumeratorElseGroup",
                  code_range |-> get_current_code_range(c),
                  enumerators |-> IF r2.val # <<>> THEN Some(r2.val) ELSE None])])])

consume_tree_sitter_preproc_elif_enumerator(c) ==
    Let([r1 \in {consume_node_with_type(GotoFirstChild(c), "#elif")} |->
    Let([r2 \in {IF Ok(r1) THEN Call("consume_preprocess_expression", <<r1.cur>>) ELSE r1} |->
    Let([r3 \in {IF Ok(r2) THEN consume_node_with_type(r2.cur, NewLine) ELSE r2} |->
    Let([r4 \in {IF Ok(r3) THEN enumerator_loop(r3.cur) ELSE r3} |->
        IF ~Ok(r4) THEN r4
        ELSE Ret(GotoNextSibling(GotoParent(r4.cur)),
                 [node |-> "MacroEnumeratorElifGroup",
                  code_range |-> get_current_code_range(c),
                  enumerators |-> IF r4.val # <<>> THEN Some(r4.val) ELSE None,
                  condition |-> r2.val])])])])])

consume_tree_sitter_preproc_if_enumerator(c, is_ifdef) ==
    LET RECURSIVE elif_loop(_, _)
        elif_loop(cc, elif_groups) ==
            IF is_node_type_in(cc, {"preproc_elifdef_in_enumerator_list",
                                    "preproc_elifdef_in_enumerator_list_no_comma"})
            THEN create_code_error(cc, "#elifdef and #elifndef is not supported")
            ELSE IF is_node_type_in(cc, {"preproc_elif_in_enumerator_list",
                                         "preproc_elif_in_enumerator_list_no_comma"})
            THEN Let([r \in {consume_tree_sitter_preproc_elif_enumerator(cc)} |->
                     IF ~Ok(r) THEN r
                     ELSE IF r.cur = cc THEN NonTermination(cc)
                     ELSE elif_loop(r.cur, Append(elif_groups, r.val))])
            ELSE Ret(cc, elif_groups)
        c1 == GotoFirstChild(c)
    IN  Let([r1 \in {IF is_ifdef THEN consume_c_identifier(GotoNextSibling(c1))
                     ELSE Let([k \in {consume_node_with_type(c1, "#if")} |->
                              IF Ok(k) THEN Call("consume_preprocess_expression", <<k.cur>>) ELSE k])} |->
    Let([r2 \in {IF Ok(r1) THEN consume_node_with_type(r1.cur, NewLine) ELSE r1} |->
    Let([r3 \in {IF Ok(r2) THEN enumerator_loop(r2.cur) ELSE r2} |->
    Let([r4 \in {IF Ok(r3) THEN elif_loop(r3.cur, <<>>) ELSE r3} |->
    Let([r5 \in {IF ~Ok(r4) THEN r4
                 ELSE IF is_node_type_in(r4.cur,
                             {"preproc_else_in_enumerator_list",
                              "preproc_else_in_enumerator_list_no_comma"})
                 THEN Let([e \in {consume_tree_sitter_preproc_else_enumerator(r4.cur)} |->
                          IF Ok(e) THEN Ret(e.cur, Some(e.val)) ELSE e])
                 ELSE Ret(r4.cur, None)} |->
    Let([r6 \in {IF Ok(r5) THEN consume_node_with_type(r5.cur, "#endif") ELSE r5} |->
        IF ~Ok(r6) THEN r6
        ELSE
    Let([if_code_range \in {<<get_current_code_start(c1),
                              IF r3.val # <<>> THEN r3.val[Len(r3.val)].code_range[2]
                              ELSE r1.val.code_range[2]>>} |->
    Let([if_enumerators \in {IF r3.val # <<>> THEN Some(r3.val) ELSE None} |->
    Let([if_group \in {IF is_ifdef
                       THEN [node |-> "MacroEnumeratorIfdefGroup", code_range |-> if_code_range,
                             enumerators |-> if_enumerators, identifier |-> r1.val,
                             is_ifndef |-> is_node_type(c1, "#ifndef")]
                       ELSE [node |-> "MacroEnumeratorIfGroup", code_range |-> if_code_range,
                             enumerators |-> if_enumerators, condition |-> r1.val]} |->
             Ret(GotoNextSibling(GotoParent(r6.cur)),
                 [node |-> "MacroEnumeratorList",
                  code_range |-> get_current_code_range(c),
                  if_group |-> if_group,
                  elif_groups |-> IF r4.val # <<>> THEN Some(r4.val) ELSE None,
                  else_group |-> r5.val])])])])])])])])])])

consume_tree_sitter_preproc_call_enumerator(c) ==
    Let([r \in {parse_preprocess_call(c)} |->
        IF ~Ok(r) THEN r
        ELSE Ret(GotoNextSibling(r.cur),
                 [node |-> "MacroDirectiveEnumerator",
                  code_range |-> r.val.code_range, call |-> r.val])])

consume_tree_sitter_enumerator_list(c) ==
    LET RECURSIVE loop(_, _)
        loop(cc, list_) ==
            IF is_node_type(cc, "}") THEN Ret(cc, list_)
            ELSE LET item == ~is_node_type(cc, ",")
                 IN  Let([r \in {IF is_tree_sitter_enumerator(cc)
                                 THEN consume_tree_sitter_enumerator(cc)
                                 ELSE IF is_node_type_in(cc,
                                             {"preproc_if_in_enumerator_list",
                                              "preproc_if_in_enumerator_list_no_comma"})
                                 THEN consume_tree_sitter_preproc_if_enumerator(cc, FALSE)
                                 ELSE IF is_node_type_in(cc,
                                             {"preproc_ifdef_in_enumerator_list",
                                              "preproc_ifdef_in_enumerator_list_no_comma"})
                                 THEN consume_tree_sitter_preproc_if_enumerator(cc, TRUE)
                                 ELSE IF is_preprocess_call(cc)
                                 THEN consume_tree_sitter_preproc_call_enumerator(cc)
                                 ELSE IF ~is_node_type(cc, ",") THEN AssertionError(cc)
                                 ELSE consume_node_with_type(cc, ",")} |->
                     IF ~Ok(r) THEN r
                     ELSE IF r.cur = cc THEN NonTermination(cc)
                     ELSE loop(r.cur, IF item THEN Append(list_, r.val)
                                      ELSE list_)])
    IN  Let([r1 \in {IF ~is_node_type(c, "enumerator_list") THEN AssertionError(c)
                     ELSE consume_node_with_type(GotoFirstChild(c), "{")} |->
    Let([r2 \in {IF Ok(r1) THEN loop(r1.cur, <<>>) ELSE r1} |->
    Let([r3 \in {IF Ok(r2) THEN consume_node_with_type(r2.cur, "}") ELSE r2} |->
        IF ~Ok(r3) THEN r3
        ELSE Ret(GotoNextSibling(GotoParent(r3.cur)), r2.val)])])])

\* An enum specifier lowered without the test for a tag or a body.
enum_specifier_unchecked(c) ==
    Ret(GotoNextSibling(c),
        [node |-> "EnumSpecifier", code_range |-> get_current_code_range(c),
         identifier |-> None, enumerators |-> None])

consume_c_enum_specifier(c) ==
    Let([r1 \in {consume_node_with_type(GotoFirstChild(c), "enum")} |->
    Let([r2 \in {IF ~Ok(r1) THEN r1
                 ELSE IF is_tree_sitter_type_identifier(r1.cur)
                 THEN Let([i \in {consume_tree_sitter_type_identifier_as_c_identifier(r1.cur)} |->
                          IF ~Ok(i) THEN i
                          ELSE IF is_node_type(i.cur, ":")
                          THEN create_code_error(
                                   i.cur,
                                   "enum of fixed underlying type is not supported")
                          ELSE Ret(i.cur, Some(i.val))])
                 ELSE Ret(r1.cur, None)} |->
    Let([r3 \in {IF ~Ok(r2) THEN r2
                 ELSE IF is_node_type(r2.cur, "enumerator_list")
                 THEN Let([l \in {consume_tree_sitter_enumerator_list(r2.cur)} |->
                          IF Ok(l) THEN Ret(l.cur, Some(l.val)) ELSE l])
                 ELSE Ret(r2.cur, None)} |->
        IF ~Ok(r3) THEN r3
        ELSE IF r2.val = None /\ r3.val = None
        THEN create_code_error(r3.cur, "missing both enum name and enumerator list")
        ELSE Ret(GotoNextSibling(GotoParent(r3.cur)),
                 [node |-> "EnumSpecifier", code_range |-> get_current_code_range(c),
                  identifier |-> r2.val, enumerators |-> r3.val])])])])

consume_c_type_specifier(c) ==
    IF is_c_struct_or_union_specifier(c)
    THEN Call("consume_c_struct_or_union_specifier", <<c>>)
    ELSE IF is_c_enum_specifier(c) THEN Call("consume_c_enum_specifier", <<c>>)
    ELSE IF is_tree_sitter_macro_type_specifier(c)
    THEN consume_tree_sitter_macro_type_specifier(c)
    ELSE IF is_c_primitive_type_specifier(c)
    THEN consume_c_primitive_type_specifier(c)
    ELSE IF is_tree_sitter_type_identifier(c) THEN consume_c_typedef_name(c)
    ELSE unreachable(c)

(***************************************************************************)
(* Top-level items: declarations and preprocessing directives.  The        *)
(* _parse_* methods return with the cursor on the node they lowered.       *)
(***************************************************************************)
parse_c_declaration(c) ==
    LET RECURSIVE loop(_, _)
        loop(cc, declarators) ==
            IF ~is_tree_sitter_declarator(cc) THEN Ret(cc, declarators)
            ELSE Let([r \in {Call("consume_tree_sitter_declarator", <<cc>>)} |->
                     IF ~Ok(r) THEN r
                     ELSE IF r.cur = cc THEN NonTermination(cc)
                     ELSE loop(r.cur, Append(declarators, r.val))])
        c1 == GotoFirstChild(c)
    IN  Let([r1 \in {IF ~is_c_declaration(c) THEN AssertionError(c)
                     ELSE consume_c_declaration_specifiers(c1, get_sibling_count(c1))} |->
    Let([r2 \in {IF Ok(r1) THEN loop(r1.cur, <<>>) ELSE r1} |->
    Let([r3 \in {IF Ok(r2) THEN consume_node_with_type(r2.cur, ";") ELSE r2} |->
        IF ~Ok(r3) THEN r3
        ELSE Ret(GotoParent(r3.cur),
                 [node |-> "Declaration", code_range |-> get_current_code_range(c),
                  specifiers |-> r1.val,
                  init_declarators |-> IF r2.val # <<>> THEN Some(r2.val) ELSE None])])])])

IncludeTargetType ==
    {"system_lib_string", "string_literal", "identifier",
     "preproc_call_expression"}

parse_preprocess_include(c) ==
    Let([r1 \in {IF ~is_node_type(c, "preproc_include") THEN AssertionError(c)
                 ELSE consume_node_with_type(GotoFirstChild(c), "#include")} |->
    Let([r2 \in {IF ~Ok(r1) THEN r1
                 ELSE IF ~is_node_type_in(r1.cur, IncludeTargetType)
                 THEN AssertionError(r1.cur)
                 ELSE IF is_node_type(r1.cur, "preproc_call_expression")
                 THEN consume_preprocess_call_expression(r1.cur)
                 ELSE consume_raw_content(r1.cur)} |->
        IF ~Ok(r2) THEN r2
        ELSE Ret(GotoParent(r2.cur),
                 [node |-> "IncludeDirective",
                  code_range |-> get_current_code_range(r1.cur),
                  type_ |-> NodeAt(r1.cur).type, target |-> r2.val])])])

\* The text of a preproc_directive token is `#`, blanks, then the name
\* (grammar: /#[ \t]*[a-zA-Z0-9]\w*/), kept as the sequence of those pieces:
\* directive[0] != "#"; skip the blanks; directive[start:] == target.
is_preprocess_directive_eq(directive, target) ==
    LET RECURSIVE skip(_)
        skip(start) == IF directive[start] \in {" ", "\t"}
                       THEN skip(start + 1) ELSE start
    IN  IF directive[1] # "#" THEN FALSE
        ELSE SubSeq(directive, skip(2), Len(directive)) = <<target>>

try_consume_preprocess_arg(c) ==
    IF is_node_type(c, "preproc_arg")
    THEN Let([r \in {consume_raw_content(c)} |->
             Ret(r.cur, Some(r.val))])
    ELSE Ret(c, None)

parse_preprocess_call(c) ==
    LET c1 == GotoFirstChild(c)
    IN  Let([r1 \in {IF ~is_preprocess_call(c) THEN AssertionError(c)
                     ELSE IF ~is_node_type(c1, "preproc_directive")
                     THEN AssertionError(c1)
                     ELSE consume_raw_content(c1)} |->
    Let([r2 \in {IF Ok(r1) THEN try_consume_preprocess_arg(r1.cur) ELSE r1} |->
    Let([code_range \in {<<get_current_code_start(c1), get_current_code_end(r2.cur)>>} |->
    Let([directive \in {r1.val} |->
    Let([directive_arg \in {r2.val} |->
        IF ~Ok(r2) THEN r2
        ELSE IF is_preprocess_directive_eq(directive, "undef")
        THEN IF directive_arg = None THEN AssertionError(r2.cur)
             ELSE Ret(GotoParent(r2.cur),
                      [node |-> "UndefineDirective", code_range |-> code_range,
                       identifier |-> directive_arg[1]])
        ELSE IF is_preprocess_directive_eq(directive, "error")
        THEN Ret(GotoParent(r2.cur),
                 [node |-> "ErrorDirective", code_range |-> code_range,
                  message |-> directive_arg])
        ELSE IF is_preprocess_directive_eq(directive, "pragma")
        THEN Ret(GotoParent(r2.cur),
                 [node |-> "PragmaDirective", code_range |-> code_range,
                  raw_directive |-> directive_arg])
        ELSE IF is_preprocess_directive_eq(directive, "line")
        THEN IF directive_arg = None THEN AssertionError(r2.cur)
             ELSE Ret(GotoParent(r2.cur),
                      [node |-> "LineDirective", code_range |-> code_range,
                       raw_directive |-> directive_arg[1]])
        ELSE Raise("CodeError", r2.cur,
                   <<"unsupoorted preprocessing directive #", directive>>)])])])])])

parse_preprocess_define(c) ==
    Let([r1 \in {IF ~is_preprocess_define(c) THEN AssertionError(c)
                 ELSE consume_node_with_type(GotoFirstChild(c), "#define")} |->
    Let([r2 \in {IF Ok(r1) THEN consume_tree_sitter_identifier(r1.cur) ELSE r1} |->
    Let([r3 \in {IF Ok(r2) THEN try_consume_preprocess_arg(r2.cur) ELSE r2} |->
        IF ~Ok(r3) THEN r3
        ELSE Ret(GotoParent(r3.cur),
                 [node |-> "DefineDirective",
                  code_range |-> <<get_current_code_start(c),
                              get_current_code_end(r2.cur)>>,
                  identifier |-> r2.val, replacement |-> r3.val])])])])

consume_preprocess_param(c) ==
    IF is_identifier(c) THEN consume_tree_sitter_identifier(c)
    ELSE IF is_node_type(c, "...") THEN Ret(GotoNextSibling(c), "...")
    ELSE create_code_error(c, "not a preprocessing param")

consume_preprocess_params(c) ==
    LET RECURSIVE loop(_, _)
        loop(cc, params) ==
            IF is_node_type(cc, ")") THEN Ret(cc, params)
            ELSE Let([k \in {consume_node_with_type(cc, ",")} |->
                 Let([r \in {IF Ok(k) THEN consume_preprocess_param(k.cur) ELSE k} |->
                     IF ~Ok(r) THEN r ELSE loop(r.cur, Append(params, r.val))])])
    IN  Let([r1 \in {IF ~is_node_type(c, "preproc_params") THEN AssertionError(c)
                     ELSE consume_node_with_type(GotoFirstChild(c), "(")} |->
    Let([r2 \in {IF ~Ok(r1) THEN r1
                 ELSE IF ~is_node_type(r1.cur, ")")
                 THEN Let([q \in {consume_preprocess_param(r1.cur)} |->
                          IF Ok(q) THEN Ret(q.cur, <<q.val>>) ELSE q])
                 ELSE Ret(r1.cur, <<>>)} |->
    Let([r3 \in {IF Ok(r2) THEN loop(r2.cur, r2.val) ELSE r2} |->
        IF ~Ok(r3) THEN r3
        ELSE IF \E index \in 1..Len(r3.val) :
                    r3.val[index] = "..." /\ index # Len(r3.val)
        THEN create_code_error(
                 GotoParent(r3.cur),
                 "... should be the last parameter of a function define directive")
        ELSE Ret(GotoNextSibling(GotoParent(r3.cur)), r3.val)])])])

parse_preprocess_function_define(c) ==
    Let([r1 \in {IF ~is_preprocess_function_define(c) THEN AssertionError(c)
                 ELSE consume_node_with_type(GotoFirstChild(c), "#define")} |->
    Let([r2 \in {IF Ok(r1) THEN consume_tree_sitter_identifier(r1.cur) ELSE r1} |->
    Let([r3 \in {IF Ok(r2) THEN consume_preprocess_params(r2.cur) ELSE r2} |->
    Let([r4 \in {IF Ok(r3) THEN try_consume_preprocess_arg(r3.cur) ELSE r3} |->
        IF ~Ok(r4) THEN r4
        ELSE Ret(GotoParent(r4.cur),
                 [node |-> "FunctionDefineDirective",
                  code_range |-> get_current_code_range(c),
                  identifier |-> r2.val, params |-> r3.val,
                  replacement |-> r4.val])])])])])

\* val is Optional[Sequence[AstNode]].  The loop stops on the first child
\* that is no top-level item, or standing on the last child of the parent.
try_consume_preprocess_group(c) ==
    LET RECURSIVE loop(_, _)
        loop(cc, group) ==
            Let([r \in {Call("try_parse_top_level_ast_node", <<cc>>)} |->
                IF ~Ok(r) THEN r
                ELSE IF r.val = None
                THEN Ret(r.cur, IF group # <<>> THEN Some(group) ELSE None)
                ELSE IF ~HasNextSibling(r.cur)
                THEN Ret(r.cur, Some(Append(group, r.val[1])))
                ELSE loop(GotoNextSibling(r.cur), Append(group, r.val[1]))])
    IN  loop(c, <<>>)

\* group[-1].code_range.end if group else <fallback>
group_end(group, fallback) ==
    IF group # None THEN group[1][Len(group[1])].code_range[2] ELSE fallback

consume_preprocess_if_directive_head(c) ==
    Let([r1 \in {consume_node_with_type(c, "#if")} |->
    Let([r2 \in {IF Ok(r1) THEN Call("consume_preprocess_expression", <<r1.cur>>) ELSE r1} |->
    Let([r3 \in {IF Ok(r2) THEN consume_node_with_type(r2.cur, NewLine) ELSE r2} |->
    Let([r4 \in {IF Ok(r3) THEN try_consume_preprocess_group(r3.cur) ELSE r3} |->
        IF ~Ok(r4) THEN r4
        ELSE Ret(r4.cur,
                 [node |-> "IfDirective",
                  code_range |->
                      <<get_current_code_start(c),
                        group_end(r4.val, get_current_code_end(r1.cur))>>,
                  group |-> r4.val, condition |-> r2.val])])])])])

consume_preprocess_ifdef_directive_head(c) ==
    LET c1 == GotoNextSibling(c)
    IN  Let([r1 \in {IF ~is_node_type_in(c, {"#ifdef", "#ifndef"})
                     THEN AssertionError(c)
                     ELSE consume_tree_sitter_identifier(c1)} |->
    Let([r2 \in {IF Ok(r1) THEN try_consume_preprocess_group(r1.cur) ELSE r1} |->
        IF ~Ok(r2) THEN r2
        ELSE Ret(r2.cur,
                 [node |-> IF is_node_type(c, "#ifdef") THEN "IfDefDirective"
                           ELSE "IfUndefDirective",
                  code_range |->
                      <<get_current_code_start(c),
                        group_end(r2.val, get_current_code_end(c1))>>,
                  group |-> r2.val, identifier |-> r1.val])])])

PreprocessElifType == "proproc_elif"
is_preprocess_elif(c) == is_node_type(c, PreprocessElifType)
is_preprocess_else(c) == is_node_type(c, "preproc_else")

consume_preprocess_elif(c) ==
    LET c1 == GotoFirstChild(c)
    IN  Let([r1 \in {IF ~is_preprocess_elif(c) THEN AssertionError(c)
                     ELSE consume_node_with_type(c1, "#elif")} |->
    Let([r2 \in {IF Ok(r1) THEN Call("consume_preprocess_expression", <<r1.cur>>) ELSE r1} |->
    Let([r3 \in {IF Ok(r2) THEN try_consume_preprocess_group(r2.cur) ELSE r2} |->
        IF ~Ok(r3) THEN r3
        ELSE Ret(GotoNextSibling(GotoParent(r3.cur)),
                 [node |-> "ElifDirective",
                  code_range |->
                      <<get_current_code_start(c1),
                        group_end(r3.val, get_current_code_end(r1.cur))>>,
                  group |-> r3.val, condition |-> r2.val])])])])

consume_preprocess_else(c) ==
    Let([r1 \in {IF ~is_preprocess_else(c) THEN AssertionError(c)
                 ELSE consume_node_with_type(GotoFirstChild(c), "#else")} |->
    Let([r2 \in {IF Ok(r1) THEN try_consume_preprocess_group(r1.cur) ELSE r1} |->
        IF ~Ok(r2) THEN r2
        ELSE Ret(GotoNextSibling(GotoParent(r2.cur)),
                 [node |-> "ElseDirective",
                  code_range |-> get_current_code_range(c),
                  group |-> r2.val])])])

is_preprocess_if_section(c) == is_node_type_in(c, {"preproc_if", "preproc_ifdef"})

parse_preprocess_if_section(c) ==
    LET RECURSIVE elif_loop(_, _)
        elif_loop(cc, elif_groups) ==
            IF ~is_preprocess_elif(cc) THEN Ret(cc, elif_groups)
            ELSE Let([r \in {consume_preprocess_elif(cc)} |->
                     IF ~Ok(r) THEN r
                     ELSE IF r.cur = cc THEN NonTermination(cc)
                     ELSE elif_loop(r.cur, Append(elif_groups, r.val))])
        c1 == GotoFirstChild(c)
    IN  Let([r1 \in {IF ~is_preprocess_if_section(c) THEN AssertionError(c)
                     ELSE IF is_node_type(c, "preproc_if")
                     THEN consume_preprocess_if_directive_head(c1)
                     ELSE consume_preprocess_ifdef_directive_head(c1)} |->
    Let([r2 \in {IF Ok(r1) THEN elif_loop(r1.cur, <<>>) ELSE r1} |->
    Let([r3 \in {IF ~Ok(r2) THEN r2
                 ELSE IF is_preprocess_else(r2.cur)
                 THEN Let([e \in {consume_preprocess_else(r2.cur)} |->
                          IF Ok(e) THEN Ret(e.cur, Some(e.val)) ELSE e])
                 ELSE Ret(r2.cur, None)} |->
    Let([r4 \in {IF Ok(r3) THEN consume_node_with_type(r3.cur, "#endif") ELSE r3} |->
        IF ~Ok(r4) THEN r4
        ELSE Ret(GotoParent(r4.cur),
                 [node |-> "IfSectionDirective",
                  code_range |-> get_current_code_range(c),
                  if_group |-> r1.val,
                  elif_groups |-> IF r2.val # <<>> THEN Some(r2.val) ELSE None,
                  else_group |-> r3.val,
                  endif |-> [node |-> "EndIfDirective",
                             code_range |-> get_current_code_range(r3.cur)]])])])])])

TreeSitterTopLevelPreprocessType ==
    {"preproc_if", "preproc_ifdef", "preproc_include", "preproc_def",
     "preproc_function_def", "preproc_call"}

TreeSitterTopLevelCNodeType ==
    {"declaration", "function_definition", "linkage_specification",
     "attributed_statement", "type_definition", "expression_statement"}

parse_top_level_preprocess_directive(c) ==
    IF ~is_node_type_in(c, TreeSitterTopLevelPreprocessType)
    THEN AssertionError(c)
    ELSE IF is_node_type(c, "preproc_include") THEN parse_preprocess_include(c)
    ELSE IF is_preprocess_call(c) THEN parse_preprocess_call(c)
    ELSE IF is_preprocess_if_section(c) THEN Call("parse_preprocess_if_section", <<c>>)
    ELSE IF is_preprocess_define(c) THEN parse_preprocess_define(c)
    ELSE IF is_preprocess_function_define(c)
    THEN parse_preprocess_function_define(c)
    ELSE unreachable(c)

\* A lowering of top-level C nodes that reports what is not a declaration as
\* unsupported code.
parse_top_level_c_node_unsupported(c) ==
    IF is_c_declaration(c) THEN Call("parse_c_declaration", <<c>>)
    ELSE create_code_error(c, "unsupported node type: " \o NodeAt(c).type)

\* _parse_c_type_definition and _parse_c_function_definition raise
\* NotImplementedError, and so does the fall-through.
parse_top_level_c_node(c) ==
    IF is_c_declaration(c) THEN Call("parse_c_declaration", <<c>>)
    ELSE NotImplementedError(c)

\* val is Optional[AstNode].
try_parse_top_level_ast_node(c) ==
    Let([r \in {IF is_node_type_in(c, TreeSitterTopLevelPreprocessType)
                THEN parse_top_level_preprocess_directive(c)
                ELSE parse_top_level_c_node(c)} |->
        IF ~is_node_type_in(c, TreeSitterTopLevelPreprocessType
                                   \cup TreeSitterTopLevelCNodeType)
        THEN Ret(c, None)
        ELSE IF ~Ok(r) THEN r ELSE Ret(r.cur, Some(r.val))])

parse_top_level_ast_node(c) ==
    Let([r \in {Call("try_parse_top_level_ast_node", <<c>>)} |->
        IF ~Ok(r) THEN r
        ELSE IF r.val = None
        THEN create_code_error(c, "unsupported node type: " \o NodeAt(c).type)
        ELSE Ret(r.cur, r.val[1])])

\* A driver that would pass over declarations as it passes over comments.
should_skip_declarations(c) == NodeAt(c).type \in {"comment", "declaration"}

should_skip(c) == NodeAt(c).type \in {"comment"}

\* _try_fix_error asking the registry: not implemented without a fixer for
\* the node, and nothing fixed with one.
try_fix_error_with_registry(c) ==
    IF lookup_fixer(registry, tree, Some(c)).ret = None
    THEN NotImplementedError(c)
    ELSE Ret(c, FALSE)

try_fix_error(c) == NotImplementedError(c)

(***************************************************************************)
(* The engine's methods by name: self._m(a1, ...) is m(a1, ...).          *)
(***************************************************************************)
Call(m, a) ==
    CASE m = "consume_preprocess_expression" -> consume_preprocess_expression(a[1])
      [] m = "consume_c_abstract_declarator" -> consume_c_abstract_declarator(a[1])
      [] m = "consume_tree_sitter_declarator" -> consume_tree_sitter_declarator(a[1])
      [] m = "consume_tree_sitter_field_declaration" -> consume_tree_sitter_field_declaration(a[1])
      [] m = "consume_c_type_specifier" -> consume_c_type_specifier(a[1])
      [] m = "try_parse_top_level_ast_node" -> try_parse_top_level_ast_node(a[1])
      [] m = "consume_tree_sitter_pointer_declarator" -> consume_tree_sitter_pointer_declarator(a[1])
      [] m = "consume_tree_sitter_array_declarator" -> consume_tree_sitter_array_declarator(a[1])
      [] m = "consume_tree_sitter_function_declarator" -> consume_tree_sitter_function_declarator(a[1])
      [] m = "consume_c_parameter_type_list" -> consume_c_parameter_type_list(a[1])
      [] m = "consume_c_struct_field_declaration" -> consume_c_struct_field_declaration(a[1])
      [] m = "consume_c_struct_or_union_specifier" -> consume_c_struct_or_union_specifier(a[1])
      [] m = "parse_c_declaration" -> parse_c_declaration(a[1])
      [] m = "parse_preprocess_if_section" -> parse_preprocess_if_section(a[1])
      [] m = "consume_c_enum_specifier" -> consume_c_enum_specifier(a[1])
      [] m = "parse_top_level_ast_node" -> parse_top_level_ast_node(a[1])
      [] m = "consume_c_parameter_declaration" -> consume_c_parameter_declaration(a[1])
      [] m = "consume_c_type_name" -> consume_c_type_name(a[1])

(***************************************************************************)
(* Input CSTs.  The engine reads nothing of a CST but its node types, its  *)
(* leaf texts, its shape and has_error, so the inputs are finite trees     *)
(* over the node types the engine's predicates name, each shaped after the *)
(* grammar production of that type.                                        *)
(***************************************************************************)
MaxTop == 2         \* top-level children of the translation unit
MaxPtrDepth == 2    \* nesting of pointer declarators
MaxAtMost == 4      \* the at_most a specifier list is called with

\* A leaf's text is kept as the sequence of its pieces (one piece, but for a
\* preproc_directive token: `#`, its blanks, the directive's name).
Leaf(type, text) ==
    [type |-> type, text |-> <<text>>, kids |-> <<>>, err |-> FALSE]
Tok(type) == Leaf(type, type)
Directive(blanks, name) ==
    [type |-> "preproc_directive", text |-> <<"#">> \o blanks \o <<name>>,
     kids |-> <<>>, err |-> FALSE]
Nd(type, kids) ==
    [type |-> type, text |-> <<>>, kids |-> kids,
     err |-> \E i \in 1..Len(kids) : kids[i].err]

Ident(x) == Leaf("identifier", x)
Prim(t) == Leaf("primitive_type", t)
Num(n) == Leaf("number_literal", n)
Qual(q) == Nd("type_qualifier", <<Tok(q)>>)
Storage(q) == Nd("storage_class_specifier", <<Tok(q)>>)
Decl(specs, declarators) == Nd("declaration", specs \o declarators \o <<Tok(";")>>)

RECURSIVE Ptr(_, _)
Ptr(k, x) == IF k = 0 THEN Ident(x)
             ELSE Nd("pointer_declarator", <<Tok("*"), Ptr(k - 1, x)>>)

Arr(inside) == Nd("array_declarator", <<Ident("a"), Tok("[")>> \o inside \o <<Tok("]")>>)
ArrayInsides == {<<>>, <<Tok("*")>>, <<Num("10")>>, <<Tok("static"), Num("10")>>}

Param(t) == Nd("parameter_declaration", <<Prim(t)>>)
Func(params) ==
    Nd("function_declarator",
       <<Ident("f"), Nd("parameter_list", <<Tok("(")>> \o params \o <<Tok(")")>>)>>)
FuncParams ==
    {<<>>, <<Param("int")>>,
     <<Param("int"), Tok(","), Tok("variadic_parameter")>>}

\* unsigned long long int
Sized == Nd("sized_type_specifier",
            <<Tok("unsigned"), Tok("long"), Tok("long"), Prim("int")>>)

Field(x) == Nd("field_declaration", <<Prim("int"), Ident(x), Tok(";")>>)
Struct(fields) ==
    Nd("struct_specifier",
       <<Tok("struct"), Leaf("type_identifier", "S"),
         Nd("field_declaration_list", <<Tok("{")>> \o fields \o <<Tok("}")>>)>>)
\* #if A  int x;  #else  int y;  #endif
FieldsIfElse ==
    Nd("preproc_if_in_field_declaration_list",
       <<Tok("#if"), Ident("A"), Tok(NewLine), Field("x"),
         Nd("preproc_else_in_field_declaration_list", <<Tok("#else"), Field("y")>>),
         Tok("#endif")>>)

\* #ifdef FOO  <fields>  [#else <fields>]  #endif, or with #ifndef
FieldElse(fields) ==
    Nd("preproc_else_in_field_declaration_list", <<Tok("#else")>> \o fields)
FieldsIfdef(head, fields, alternative) ==
    Nd("preproc_ifdef_in_field_declaration_list",
       <<Tok(head), Ident("FOO")>> \o fields \o alternative \o <<Tok("#endif")>>)
FieldBodies == {<<>>, <<Field("x")>>, <<Field("x"), Field("y")>>}
FieldAlternatives == {<<>>, <<FieldElse(<<>>)>>, <<FieldElse(<<Field("z")>>)>>}
IfdefStructs ==
    {Decl(<<Struct(<<FieldsIfdef(head, fields, alternative)>>)>>, <<>>) :
         head \in {"#ifdef", "#ifndef"}, fields \in FieldBodies,
         alternative \in FieldAlternatives}

\* Conditional sections.  An alternative (#else, #elif, #elifdef) is the last
\* child but one of the group it follows, so a chain of alternatives nests.
IntX == Decl(<<Prim("int")>>, <<Ident("x")>>)
ElseOf(suffix, body) == Nd("preproc_else" \o suffix, <<Tok("#else")>> \o body)
ElifOf(suffix, body, alternative) ==
    Nd("preproc_elif" \o suffix,
       <<Tok("#elif"), Ident("B"), Tok(NewLine)>> \o body \o alternative)
ElifdefOf(suffix, body) ==
    Nd("preproc_elifdef" \o suffix, <<Tok("#elifdef"), Ident("B")>> \o body)
IfOf(suffix, body, alternative) ==
    Nd("preproc_if" \o suffix,
       <<Tok("#if"), Ident("A"), Tok(NewLine)>> \o body \o alternative
           \o <<Tok("#endif")>>)
IfdefOf(suffix, head, body, alternative) ==
    Nd("preproc_ifdef" \o suffix,
       <<Tok(head), Ident("A")>> \o body \o alternative \o <<Tok("#endif")>>)

\* The alternatives of a group whose bodies are drawn from `bodies`.
AlternativesOf(suffix, bodies, one) ==
    {<<>>, <<ElifdefOf(suffix, <<>>)>>,
     <<ElifOf(suffix, <<>>, <<ElifdefOf(suffix, <<>>)>>)>>,
     <<ElifOf(suffix, <<>>, <<ElifOf(suffix, one, <<>>)>>)>>,
     <<ElifOf(suffix, one, <<ElseOf(suffix, one)>>)>>}
        \cup {<<ElseOf(suffix, b)>> : b \in bodies}
        \cup {<<ElifOf(suffix, b, <<>>)>> : b \in bodies}
SectionsOf(suffix, bodies, one) ==
    {IfOf(suffix, b, a) : b \in bodies, a \in AlternativesOf(suffix, bodies, one)}
        \cup {IfdefOf(suffix, head, b, a) :
                  head \in {"#ifdef", "#ifndef"}, b \in bodies,
                  a \in AlternativesOf(suffix, bodies, one)}

TopSections == SectionsOf("", {<<>>, <<IntX>>}, <<IntX>>)
FieldSections ==
    SectionsOf("_in_field_declaration_list", {<<>>, <<Field("x")>>}, <<Field("x")>>)
ConditionalStructs == {Decl(<<Struct(<<s>>)>>, <<>>) : s \in FieldSections}

Enumerator(x) == Nd("enumerator", <<Ident(x)>>)
EnumeratorList(items) == Nd("enumerator_list", <<Tok("{")>> \o items \o <<Tok("}")>>)
Enum(tag, rest) == Nd("enum_specifier", <<Tok("enum")>> \o tag \o rest)
EnumTag == <<Leaf("type_identifier", "E")>>
EnumeratorSections ==
    SectionsOf("_in_enumerator_list",
               {<<>>, <<Enumerator("A"), Tok(",")>>}, <<Enumerator("A"), Tok(",")>>)
        \cup SectionsOf("_in_enumerator_list_no_comma",
                        {<<>>, <<Enumerator("A")>>}, <<Enumerator("A")>>)
ConditionalEnums ==
    {Decl(<<Enum(EnumTag, <<EnumeratorList(<<s>>)>>)>>, <<>>) :
         s \in EnumeratorSections}

\* struct, union and enum specifiers with and without a tag and a body.
Tagged(keyword, tag, body) ==
    Nd(keyword \o "_specifier", <<Tok(keyword)>> \o tag \o body)
TagOrBodySpecifiers ==
    {Tagged(keyword, tag, body) :
         keyword \in {"struct", "union"}, tag \in {<<>>, EnumTag},
         body \in {<<>>, <<Nd("field_declaration_list",
                             <<Tok("{"), Field("x"), Tok("}")>>)>>}}
        \cup {Enum(tag, body) :
                  tag \in {<<>>, EnumTag},
                  body \in {<<>>, <<EnumeratorList(<<>>)>>,
                            <<EnumeratorList(<<Enumerator("A")>>)>>,
                            <<EnumeratorList(<<Enumerator("A"), Tok(","),
                                               Enumerator("B"), Tok(",")>>)>>}}
SpecifierDecls == {Decl(<<s>>, <<Ident("x")>>) : s \in TagOrBodySpecifiers}

\* Microsoft extensions in declarators, and an enum of fixed underlying type.
MsBased == Nd("ms_based_modifier", <<Tok("__based"), Tok("("), Ident("b"), Tok(")")>>)
MsPointer == Nd("ms_pointer_modifier", <<Tok("__restrict")>>)
MsCall == Leaf("ms_call_modifier", "__cdecl")
Parenthesized(modifier) ==
    Nd("parenthesized_declarator",
       <<Tok("(")>> \o modifier \o <<Ptr(1, "p"), Tok(")")>>)
AbstractParenthesized(modifier) ==
    Nd("abstract_parenthesized_declarator",
       <<Tok("(")>> \o modifier
           \o <<Nd("abstract_pointer_declarator", <<Tok("*")>>), Tok(")")>>)
ExtensionDecls ==
    {Decl(<<Prim("int")>>, <<d>>) :
         d \in {Nd("pointer_declarator", <<MsBased, Tok("*"), Ident("p")>>),
                Nd("pointer_declarator", <<Tok("*"), MsPointer, Ident("p")>>),
                Parenthesized(<<>>), Parenthesized(<<MsCall>>),
                Func(<<Nd("parameter_declaration",
                          <<Prim("int"), AbstractParenthesized(<<>>)>>)>>),
                Func(<<Nd("parameter_declaration",
                          <<Prim("int"), AbstractParenthesized(<<MsCall>>)>>)>>)}}
        \cup {Decl(<<Enum(EnumTag, <<Tok(":"), Prim("int")>> \o body)>>, <<>>) :
                  body \in {<<>>, <<EnumeratorList(<<Enumerator("A")>>)>>}}

Define == Nd("preproc_def", <<Tok("#define"), Ident("X"), Leaf("preproc_arg", "1")>>)
Include == Nd("preproc_include", <<Tok("#include"), Leaf("system_lib_string", "<a.h>")>>)
Undef == Nd("preproc_call",
            <<Directive(<<" ">>, "undef"), Leaf("preproc_arg", "X")>>)
IfDef == Nd("preproc_ifdef",
            <<Tok("#ifdef"), Ident("A"), Decl(<<Prim("int")>>, <<Ident("x")>>),
              Tok("#endif")>>)

PointerDecls == {Decl(<<Prim("int")>>, <<Ptr(k, "p")>>) : k \in 1..MaxPtrDepth}

Comment == Leaf("comment", "/**/")
SyntaxError == [type |-> "ERROR", text |-> <<>>, kids |-> <<>>, err |-> TRUE]

\* #if conditions: every production of a preprocessor expression, and a
\* node that is none of them.
Defined(parenthesized) ==
    Nd("preproc_defined",
       IF parenthesized
       THEN <<Tok("defined"), Tok("("), Ident("FOO"), Tok(")")>>
       ELSE <<Tok("defined"), Ident("FOO")>>)
Conditions ==
    {Num("1"), Leaf("char_literal", "'a'"), SyntaxError,
     Defined(TRUE), Defined(FALSE),
     Nd("preproc_unary_expression", <<Tok("!"), Ident("A")>>),
     Nd("preproc_binary_expression", <<Ident("A"), Tok("&&"), Defined(TRUE)>>),
     Nd("preproc_parenthesized_expression", <<Tok("("), Ident("A"), Tok(")")>>)}
ConditionSections ==
    {Nd("preproc_if", <<Tok("#if"), cond, Tok(NewLine), Tok("#endif")>>) :
         cond \in Conditions}

\* Elements a list production has no predicate for (a comment may stand
\* anywhere), and the places of a C expression.
Initialized(initializer) ==
    Decl(<<Prim("int")>>,
         <<Nd("init_declarator", <<Ident("a"), Tok("=")>> \o initializer)>>)
InitializerList(items) ==
    Nd("initializer_list", <<Tok("{")>> \o items \o <<Tok("}")>>)
BitField ==
    Nd("field_declaration",
       <<Prim("int"), Ident("x"), Nd("bitfield_clause", <<Tok(":"), Num("3")>>),
         Tok(";")>>)
ValuedEnumerator == Nd("enumerator", <<Ident("A"), Tok("="), Num("1")>>)
OddShapes ==
    {Decl(<<Struct(<<Comment, Field("x")>>)>>, <<>>),
     Decl(<<Struct(<<BitField>>)>>, <<>>),
     Decl(<<Enum(EnumTag, <<EnumeratorList(<<Comment, Enumerator("A")>>)>>)>>, <<>>),
     Decl(<<Enum(EnumTag, <<EnumeratorList(<<ValuedEnumerator>>)>>)>>, <<>>),
     Initialized(<<Num("1")>>), Initialized(<<InitializerList(<<>>)>>),
     Initialized(<<InitializerList(<<Comment>>)>>),
     Initialized(<<InitializerList(<<Num("1")>>)>>)}

\* The top-level C nodes other than a declaration.
OtherTopLevel ==
    {Nd(type, <<Prim("int"), Ident("f"), Tok(";")>>) :
         type \in TreeSitterTopLevelCNodeType \ {"declaration"}}

PrimitiveTypes == {"void", "char", "int", "float", "double"}
TypedDecls ==
    {Decl(<<Prim(t)>>, <<Ident("x")>>) : t \in PrimitiveTypes}
        \cup {Decl(<<Leaf("type_identifier", "T")>>, <<Ident("x")>>)}

\* void f(int a[..], int [..]);  with the same tokens between the brackets
\* of the named and of the abstract array declarator.
AbstractArr(inside) ==
    Nd("abstract_array_declarator", <<Tok("[")>> \o inside \o <<Tok("]")>>)
SizeInsides ==
    ArrayInsides
        \cup {<<Qual("const")>>, <<Qual("const"), Num("10")>>,
              <<Qual("const"), Tok("static"), Num("10")>>,
              <<Tok("static"), Qual("const"), Num("10")>>}
ArrayPairs ==
    {Decl(<<Prim("void")>>,
          <<Func(<<Nd("parameter_declaration", <<Prim("int"), Arr(i)>>),
                   Tok(","),
                   Nd("parameter_declaration", <<Prim("int"), AbstractArr(i)>>)>>)>>) :
         i \in SizeInsides}

\* struct S { unsigned long long int x; };
SizedField == Nd("field_declaration", <<Sized, Ident("x"), Tok(";")>>)

\* void f(int <declarator>);  and  T(int <abstract declarator>) x;
AbstractPtr == Nd("abstract_pointer_declarator", <<Tok("*")>>)
ParameterDecls ==
    {Decl(<<Prim("void")>>,
          <<Func(<<Nd("parameter_declaration", <<Prim("int")>> \o d)>>)>>) :
         d \in {<<Ident("a")>>, <<Ptr(1, "a")>>, <<AbstractPtr>>}}
TypeDescriptor(declarator) == Nd("type_descriptor", <<Prim("int")>> \o declarator)
TypeNameDecls ==
    {Decl(<<Nd("macro_type_specifier",
               <<Ident("T"), Tok("("), TypeDescriptor(d), Tok(")")>>)>>,
          <<Ident("x")>>) :
         d \in {<<>>, <<AbstractPtr>>, <<AbstractArr(<<>>)>>}}

\* int a, b;  and  int a, *b, c;
MultiDecls ==
    {Decl(<<Prim("int")>>, <<Ident("a"), Tok(","), Ident("b")>>),
     Decl(<<Prim("int")>>,
          <<Ident("a"), Tok(","), Ptr(1, "b"), Tok(","), Ident("c")>>)}

\* The top-level children the driver is run on.
Items ==
    {Comment, SyntaxError, Define, Include, Undef, IfDef,
     Decl(<<Prim("int")>>, <<Ident("x")>>),
     Decl(<<Prim("int")>>, <<Arr(<<>>)>>),
     Decl(<<Struct(<<Field("x")>>)>>, <<>>),
     Decl(<<Struct(<<FieldsIfElse>>)>>, <<>>)}
        \cup PointerDecls

\* The declarations the consume methods are applied inside.
ConsumeItems ==
    Items
        \cup {Decl(<<Prim("int")>>, <<Arr(i)>>) : i \in ArrayInsides}
        \cup {Decl(<<Prim("int")>>, <<Func(ps)>>) : ps \in FuncParams}
        \cup {Decl(<<Sized, Qual("const")>>, <<Ident("x")>>),
              Decl(<<Storage("static"), Sized>>, <<Ident("x")>>),
              Decl(<<Qual("const"), Prim("int")>>, <<Ident("x")>>)}
        \cup IfdefStructs \cup TopSections \cup ConditionalStructs
        \cup ConditionalEnums \cup SpecifierDecls \cup ExtensionDecls
        \cup ConditionSections \cup OddShapes \cup OtherTopLevel \cup TypedDecls
        \cup ArrayPairs \cup MultiDecls \cup ParameterDecls \cup TypeNameDecls \cup {Decl(<<Struct(<<SizedField>>)>>, <<>>)}

TranslationUnitOf(kids) == Nd("translation_unit", kids)

RECURSIVE SeqsUpTo(_, _)
SeqsUpTo(S, n) ==
    IF n = 0 THEN {<<>>}
    ELSE LET shorter == SeqsUpTo(S, n - 1)
         IN  shorter \cup {Append(q, x) : q \in shorter, x \in S}

RECURSIVE Paths(_)
Paths(n) ==
    {<<>>} \cup UNION {{<<i>> \o q : q \in Paths(n.kids[i])} : i \in 1..Len(n.kids)}

RECURSIVE Descend(_, _)
Descend(n, p) == IF p = <<>> THEN n ELSE Descend(n.kids[Head(p)], Tail(p))

\* Source positions: leaves are laid out left to right, one unit each.
RECURSIVE Width(_)
RECURSIVE SumWidth(_, _)
Width(n) == IF Len(n.kids) = 0 THEN 1 ELSE SumWidth(n.kids, Len(n.kids))
SumWidth(ks, k) == IF k = 0 THEN 0 ELSE Width(ks[k]) + SumWidth(ks, k - 1)

RECURSIVE StartOf(_, _)
StartOf(n, p) ==
    IF p = <<>> THEN 0
    ELSE StartOf(n, GotoParent(p))
         + SumWidth(Descend(n, GotoParent(p)).kids, p[Len(p)] - 1)

\* The tree as the engine reads it: every node by its path.
Cst(n) ==
    [p \in Paths(n) |->
        [type |-> Descend(n, p).type, text |-> Descend(n, p).text,
         err |-> Descend(n, p).err, child_count |-> Len(Descend(n, p).kids),
         range |-> <<StartOf(n, p), StartOf(n, p) + Width(Descend(n, p))>>]]

Inputs == {Cst(TranslationUnitOf(kids)) : kids \in SeqsUpTo(Items, MaxTop)}
ConsumeInputs == {Cst(TranslationUnitOf(<<item>>)) : item \in ConsumeItems}

(***************************************************************************)
(* parse_module, one step per pass of its `while True` loop.               *)
(***************************************************************************)
NoCall == [method |-> "none"]
NoOutcome == [how |-> "running"]
Returned(v) == [how |-> "returned", value |-> v]
Raised(r) == [how |-> "raised", exc |-> r.exc, err_msg |-> r.val.msg,
              code_range |-> r.val.code_range]

Init ==
    /\ tree \in Inputs
    /\ cursor = <<>>
    /\ pc = "start"
    /\ nodes = <<>>
    /\ outcome = NoOutcome
    /\ visited = <<>>
    /\ call = NoCall
    /\ registry = EmptyRegistry
    /\ first_run = None

\* An exception leaves parse_module; a loop that cannot end keeps it inside.
Leave(r) ==
    /\ pc' = IF r.exc = "NonTermination" THEN "diverged" ELSE "raised"
    /\ outcome' = Raised(r)
    /\ cursor' = r.cur

\* Lines 235-243: the asserts, tu_code_range, goto_first_child, nodes = [].
parse_module_begin ==
    /\ pc = "start"
    /\ IF ~is_node_type(cursor, "translation_unit")
       THEN Leave(AssertionError(cursor)) /\ UNCHANGED nodes
       ELSE /\ cursor' = GotoFirstChild(cursor)
            /\ nodes' = <<>>
            /\ pc' = "loop"
            /\ UNCHANGED outcome
    /\ UNCHANGED <<tree, visited, call, registry, first_run>>

\* Lines 250-253: goto_next_sibling, else break and return the unit.
NextSiblingOrReturn(c, nodes_) ==
    /\ nodes' = nodes_
    /\ IF HasNextSibling(c)
       THEN /\ cursor' = GotoNextSibling(c)
            /\ pc' = "loop"
            /\ UNCHANGED outcome
       ELSE /\ cursor' = c
            /\ pc' = "returned"
            /\ outcome' = Returned([node |-> "TranslationUnit",
                                    code_range |-> get_current_code_range(<<>>),
                                    nodes |-> nodes_])

\* Lines 245-246: the node has an error; _try_fix_error is called first.
parse_module_error ==
    /\ pc = "loop"
    /\ has_error(cursor)
    /\ LET fixed == try_fix_error(cursor)
       IN  IF ~Ok(fixed) THEN Leave(fixed)
           ELSE Leave(create_code_error(cursor, NodeAt(cursor).type))
    /\ visited' = Append(visited, cursor)
    /\ UNCHANGED <<tree, nodes, call, registry, first_run>>

\* Line 247, _should_skip holds: nothing is appended.
parse_module_skip ==
    /\ pc = "loop"
    /\ ~has_error(cursor)
    /\ should_skip(cursor)
    /\ NextSiblingOrReturn(cursor, nodes)
    /\ visited' = Append(visited, cursor)
    /\ UNCHANGED <<tree, call, registry, first_run>>

\* Lines 247-248: the node is lowered and appended.
parse_module_item ==
    /\ pc = "loop"
    /\ ~has_error(cursor)
    /\ ~should_skip(cursor)
    /\ LET r == parse_top_level_ast_node(cursor)
       IN  IF ~Ok(r) THEN Leave(r) /\ UNCHANGED nodes
           ELSE NextSiblingOrReturn(r.cur, Append(nodes, r.val))
    /\ visited' = Append(visited, cursor)
    /\ UNCHANGED <<tree, call, registry, first_run>>

\* One more pass of a loop that cannot end: nothing changes.
loop_again ==
    /\ pc = "diverged"
    /\ UNCHANGED vars

Next ==
    \/ parse_module_begin
    \/ parse_module_error
    \/ parse_module_skip
    \/ parse_module_item
    \/ loop_again

Spec == Init /\ [][Next]_vars

(***************************************************************************)
(* The consume methods one by one: a method is called with the cursor on   *)
(* any node of a one-declaration unit that its own entry test accepts, and *)
(* its result and the cursor it leaves are recorded.                       *)
(***************************************************************************)
InitConsume ==
    /\ tree \in ConsumeInputs
    /\ cursor \in DOMAIN tree
    /\ pc = "harness"
    /\ nodes = <<>>
    /\ outcome = NoOutcome
    /\ visited = <<>>
    /\ call = NoCall
    /\ registry = EmptyRegistry
    /\ first_run = None

Called(method, at_most, r) ==
    /\ pc = "harness"
    /\ \E res \in {r} :
           /\ call' = [method |-> method, at |-> cursor, at_most |-> at_most,
                       res |-> res]
           /\ cursor' = res.cur
    /\ pc' = "called"
    /\ UNCHANGED <<tree, nodes, outcome, visited, registry, first_run>>

call_consume_node_with_type ==
    /\ get_child_count(cursor) = 0
    /\ Called("consume_node_with_type", 0,
              consume_node_with_type(cursor, NodeAt(cursor).type))

call_consume_tree_sitter_identifier ==
    /\ is_identifier(cursor)
    /\ Called("consume_tree_sitter_identifier", 0,
              consume_tree_sitter_identifier(cursor))

call_consume_c_storage_class_specifier ==
    /\ is_c_storage_class_specifier(cursor)
    /\ Called("consume_c_storage_class_specifier", 0,
              consume_c_storage_class_specifier(cursor))

call_consume_c_type_qualifier ==
    /\ is_c_type_qualifier(cursor)
    /\ Called("consume_c_type_qualifier", 0, consume_c_type_qualifier(cursor))

call_consume_c_type_specifier ==
    /\ is_c_type_specifier(cursor)
    /\ Called("consume_c_type_specifier", 0, Call("consume_c_type_specifier", <<cursor>>))

call_consume_tree_sitter_sized_type_specifier ==
    /\ is_tree_sitter_sized_type_specifier(cursor)
    /\ Called("consume_tree_sitter_sized_type_specifier", 0,
              consume_tree_sitter_sized_type_specifier(cursor))

\* Called as _parse_c_declaration calls it, on the first child of a
\* declaration, with every at_most up to the bound.
call_consume_c_declaration_specifiers ==
    /\ cursor # <<>>
    /\ is_c_declaration(GotoParent(cursor))
    /\ cursor[Len(cursor)] = 1
    /\ \E at_most \in 1..MaxAtMost :
           Called("consume_c_declaration_specifiers", at_most,
                  consume_c_declaration_specifiers(cursor, at_most))

call_consume_tree_sitter_declarator ==
    /\ is_tree_sitter_declarator(cursor)
    /\ Called("consume_tree_sitter_declarator", 0,
              Call("consume_tree_sitter_declarator", <<cursor>>))

call_consume_tree_sitter_pointer_declarator ==
    /\ is_tree_sitter_pointer_declarator(cursor)
    /\ Called("consume_tree_sitter_pointer_declarator", 0,
              Call("consume_tree_sitter_pointer_declarator", <<cursor>>))

call_consume_tree_sitter_array_declarator ==
    /\ is_tree_sitter_array_declarator(cursor)
    /\ Called("consume_tree_sitter_array_declarator", 0,
              Call("consume_tree_sitter_array_declarator", <<cursor>>))

call_consume_tree_sitter_function_declarator ==
    /\ is_tree_sitter_function_declarator(cursor)
    /\ Called("consume_tree_sitter_function_declarator", 0,
              Call("consume_tree_sitter_function_declarator", <<cursor>>))

call_consume_c_parameter_type_list ==
    /\ is_node_type(cursor, "parameter_list")
    /\ Called("consume_c_parameter_type_list", 0,
              Call("consume_c_parameter_type_list", <<cursor>>))

call_consume_c_struct_field_declaration ==
    /\ is_node_type(cursor, "field_declaration")
    /\ Called("consume_c_struct_field_declaration", 0,
              Call("consume_c_struct_field_declaration", <<cursor>>))

call_consume_tree_sitter_field_declaration ==
    /\ is_tree_sitter_field_declaration(cursor)
    /\ Called("consume_tree_sitter_field_declaration", 0,
              Call("consume_tree_sitter_field_declaration", <<cursor>>))

call_consume_c_struct_or_union_specifier ==
    /\ is_c_struct_or_union_specifier(cursor)
    /\ Called("consume_c_struct_or_union_specifier", 0,
              Call("consume_c_struct_or_union_specifier", <<cursor>>))

call_parse_c_declaration ==
    /\ is_c_declaration(cursor)
    /\ Called("parse_c_declaration", 0, Call("parse_c_declaration", <<cursor>>))

call_parse_preprocess_if_section ==
    /\ is_preprocess_if_section(cursor)
    /\ Called("parse_preprocess_if_section", 0,
              Call("parse_preprocess_if_section", <<cursor>>))

call_consume_c_enum_specifier ==
    /\ is_c_enum_specifier(cursor)
    /\ Called("consume_c_enum_specifier", 0,
              Call("consume_c_enum_specifier", <<cursor>>))

call_consume_c_abstract_declarator ==
    /\ is_c_abstract_declarator(cursor)
    /\ Called("consume_c_abstract_declarator", 0,
              Call("consume_c_abstract_declarator", <<cursor>>))

\* parse_module enters _parse_top_level_ast_node on the children of the unit.
call_parse_top_level_ast_node ==
    /\ Len(cursor) = 1
    /\ Called("parse_top_level_ast_node", 0,
              Call("parse_top_level_ast_node", <<cursor>>))

\* The condition of an #if or #elif: the node after the directive's token.
call_consume_preprocess_expression ==
    /\ Len(cursor) > 1 /\ cursor[Len(cursor)] = 2
    /\ is_node_type_in(Append(GotoParent(cursor), 1), {"#if", "#elif"})
    /\ Called("consume_preprocess_expression", 0,
              Call("consume_preprocess_expression", <<cursor>>))

call_consume_tree_sitter_initializer_list ==
    /\ is_node_type(cursor, "initializer_list")
    /\ Called("consume_tree_sitter_initializer_list", 0,
              consume_tree_sitter_initializer_list(cursor))

call_consume_c_primitive_type_specifier ==
    /\ is_c_primitive_type_specifier(cursor)
    /\ Called("consume_c_primitive_type_specifier", 0,
              consume_c_primitive_type_specifier(cursor))

call_consume_c_parameter_declaration ==
    /\ is_c_parameter_declaration(cursor)
    /\ Called("consume_c_parameter_declaration", 0,
              Call("consume_c_parameter_declaration", <<cursor>>))

\* Called as _consume_tree_sitter_macro_type_specifier calls it, on the
\* type_descriptor child.
call_consume_c_type_name ==
    /\ is_node_type(cursor, "type_descriptor")
    /\ Called("consume_c_type_name", 0, Call("consume_c_type_name", <<cursor>>))

NextConsume ==
    \/ call_consume_node_with_type
    \/ call_consume_tree_sitter_identifier
    \/ call_consume_c_storage_class_specifier
    \/ call_consume_c_type_qualifier
    \/ call_consume_c_type_specifier
    \/ call_consume_tree_sitter_sized_type_specifier
    \/ call_consume_c_declaration_specifiers
    \/ call_consume_tree_sitter_declarator
    \/ call_consume_tree_sitter_pointer_declarator
    \/ call_consume_tree_sitter_array_declarator
    \/ call_consume_tree_sitter_function_declarator
    \/ call_consume_c_parameter_type_list
    \/ call_consume_c_struct_field_declaration
    \/ call_consume_tree_sitter_field_declaration
    \/ call_consume_c_struct_or_union_specifier
    \/ call_parse_c_declaration
    \/ call_parse_preprocess_if_section
    \/ call_consume_c_enum_specifier
    \/ call_consume_c_abstract_declarator
    \/ call_parse_top_level_ast_node
    \/ call_consume_preprocess_expression
    \/ call_consume_tree_sitter_initializer_list
    \/ call_consume_c_primitive_type_specifier
    \/ call_consume_c_parameter_declaration
    \/ call_consume_c_type_name

SpecConsume == InitConsume /\ [][NextConsume]_vars

(***************************************************************************)
(* Properties.                                                             *)
(***************************************************************************)
Last(q) == q[Len(q)]
Finished == pc \in {"returned", "raised", "diverged"}
RootRange == tree[<<>>].range
TopLevel == [i \in 1..tree[<<>>].child_count |-> <<i>>]
NotComment(p) == tree[p].type # "comment"
CalledMethod(m) == pc = "called" /\ call.method = m

\* The consume methods that lower the one node they are entered on.
SingleNodeConsumers ==
    {"consume_node_with_type", "consume_tree_sitter_identifier",
     "consume_c_storage_class_specifier", "consume_c_type_qualifier",
     "consume_c_type_specifier", "consume_tree_sitter_sized_type_specifier",
     "consume_tree_sitter_declarator", "consume_tree_sitter_pointer_declarator",
     "consume_tree_sitter_array_declarator",
     "consume_tree_sitter_function_declarator", "consume_c_parameter_type_list",
     "consume_c_struct_field_declaration", "consume_tree_sitter_field_declaration",
     "consume_c_struct_or_union_specifier"}

\* C1: a consume method entered on node n that returns normally leaves the
\* cursor on the next sibling of n (same parent, next child index), for
\* every position of n among its siblings.
C1_CursorOnNextSibling ==
    (pc = "called" /\ call.method \in SingleNodeConsumers /\ Ok(call.res))
        => /\ HasNextSibling(call.at)
           /\ cursor = [call.at EXCEPT ![Len(call.at)] = @ + 1]

\* C2: on a CST without syntax errors, an exception that leaves parse_module
\* is a CodeError or an Unreachable, never another kind.
C2_OnlyCodeErrorOrUnreachable ==
    (pc = "raised" /\ ~has_error(<<>>))
        => outcome.exc \in {"CodeError", "Unreachable"}

\* C3: parse_module returns or raises after finitely many cursor moves: no
\* sibling loop is ever in a pass that repeats the one before it.
C3_EveryLoopEnds == pc # "diverged"

\* C4: once the driver has reached a top-level node whose has_error is set,
\* parse_module has raised a CodeError whose message is that node's type and
\* whose range is that node's range.
C4_SyntaxErrorRaisesCodeError ==
    (visited # <<>> /\ has_error(Last(visited)))
        => /\ outcome.how = "raised"
           /\ outcome.exc = "CodeError"
           /\ outcome.err_msg = tree[Last(visited)].type
           /\ outcome.code_range = tree[Last(visited)].range

\* C5: for a root without children and without error, parse_module ends by
\* returning a TranslationUnit with no nodes and the root's range.
C5_EmptyUnitReturnsEmpty ==
    (Finished /\ get_child_count(<<>>) = 0 /\ ~has_error(<<>>))
        => outcome = Returned([node |-> "TranslationUnit",
                               code_range |-> RootRange, nodes |-> <<>>])

\* C6: when parse_module returns for a root with children, the unit holds
\* one AST node for each top-level child that is not a comment, in sibling
\* order (the j-th node is the lowering of the j-th such child), comments
\* add nothing, every top-level child was visited exactly once, and the
\* unit's range is the root's range.
C6_OneNodePerNonCommentChild ==
    (pc = "returned" /\ get_child_count(<<>>) > 0)
        => LET lowered == SelectSeq(TopLevel, NotComment)
               unit == outcome.value
           IN  /\ unit.node = "TranslationUnit"
               /\ unit.code_range = RootRange
               /\ visited = TopLevel
               /\ Len(unit.nodes) = Len(lowered)
               /\ \A j \in 1..Len(lowered) :
                      unit.nodes[j] = parse_top_level_ast_node(lowered[j]).val

C6_Witness ==
    /\ pc = "returned"
    /\ get_child_count(<<>>) = 2
    /\ \E i \in 1..2 : tree[<<i>>].type = "comment"
    /\ Len(outcome.value.nodes) = 1

\* C7: _consume_c_declaration_specifiers(at_most = N) returns at most N
\* nodes, and when N is the sibling count of the declaration the cursor ends
\* on the first sibling that is not a declaration specifier.
C7_AtMostAndGreedy ==
    (CalledMethod("consume_c_declaration_specifiers") /\ Ok(call.res))
        => /\ Len(call.res.val) <= call.at_most
           /\ call.at_most = get_sibling_count(call.at)
                  => ~is_c_declaration_specifier(cursor)

\* The number of pointer_declarator nodes (each `*` then the declarator,
\* no qualifier) around the identifier at the bottom of the declarator at
\* p; -1 when the declarator at p is not such a chain.
RECURSIVE PointerChain(_)
PointerChain(p) ==
    IF tree[p].type = "identifier" THEN 0
    ELSE IF /\ tree[p].type = "pointer_declarator"
            /\ tree[p].child_count = 2
            /\ tree[Append(p, 1)].type = "*"
    THEN LET inner == PointerChain(Append(p, 2))
         IN  IF inner < 0 THEN -1 ELSE inner + 1
    ELSE -1

RECURSIVE ChainIdentifier(_)
ChainIdentifier(p) ==
    IF tree[p].type = "identifier" THEN tree[p].text
    ELSE ChainIdentifier(Append(p, 2))

RECURSIVE IsPointerNest(_, _, _)
IsPointerNest(d, k, name) ==
    IF k = 0
    THEN d.node = "IdentifierDeclarator" /\ d.identifier.name = name
    ELSE /\ d.node = "PointerDeclarator"
         /\ d.type_qualifier_list = None
         /\ IsPointerNest(d.declarator, k - 1, name)

\* `T d;` with d a chain of at least one pointer_declarator.
IsPointerDeclaration(p) ==
    /\ tree[p].type = "declaration"
    /\ tree[p].child_count = 3
    /\ PointerChain(Append(p, 2)) >= 1

\* C8: a declaration whose declarator is a chain of k >= 1 pointer
\* declarators without qualifiers around an identifier lowers to a
\* Declaration with exactly one declarator: k nested PointerDeclarator
\* nodes, each with type_qualifier_list None, around the
\* IdentifierDeclarator of that identifier.
C8_NestedPointerDeclarators ==
    (CalledMethod("parse_c_declaration") /\ IsPointerDeclaration(call.at))
        => /\ Ok(call.res)
           /\ call.res.val.node = "Declaration"
           /\ Len(call.res.val.init_declarators) = 1
           /\ Len(call.res.val.init_declarators[1]) = 1
           /\ IsPointerNest(call.res.val.init_declarators[1][1],
                            PointerChain(Append(call.at, 2)),
                            ChainIdentifier(Append(call.at, 2)))

C8_Witness ==
    /\ CalledMethod("parse_c_declaration")
    /\ PointerChain(Append(call.at, 2)) = 2
    /\ Ok(call.res)
    /\ call.res.val.init_declarators[1][1].declarator.node = "PointerDeclarator"

\* The kind the tokens after the `[` of the array declarator at p stand for.
ArraySizeKindAt(p) ==
    LET first == tree[Append(p, 3)].type
    IN  IF first = "*" THEN "VariableUnknown"
        ELSE IF first = "static" THEN "StaticExpression"
        ELSE IF first = "]" THEN "Unknown"
        ELSE "VariableExpression"

\* C9: the consume of a named array declarator returns an ArrayDeclarator
\* whose size has the kind its tokens stand for (`*`: VariableUnknown,
\* leading `static`: StaticExpression, leading expression:
\* VariableExpression, immediate `]`: Unknown), with an expression exactly
\* for the two Expression kinds.
C9_ArraySizeClassified ==
    CalledMethod("consume_tree_sitter_array_declarator")
        => /\ Ok(call.res)
           /\ call.res.val.node = "ArrayDeclarator"
           /\ call.res.val.array_size.kind = ArraySizeKindAt(call.at)
           /\ (call.res.val.array_size.expression # None)
                  <=> (ArraySizeKindAt(call.at)
                           \in {"StaticExpression", "VariableExpression"})

\* The children of the parameter_list at p of the given type.
ParametersAt(p, type) ==
    {i \in 1..tree[p].child_count : tree[Append(p, i)].type = type}

\* C10: _consume_tree_sitter_declarator, entered on a function_declarator
\* (which _is_tree_sitter_declarator accepts), returns a FunctionDeclarator
\* with one parameter for each parameter declaration and is_variadic set
\* exactly when the list has a variadic parameter.
C10_FunctionDeclaratorLowered ==
    (/\ CalledMethod("consume_tree_sitter_declarator")
     /\ is_tree_sitter_function_declarator(call.at))
        => /\ is_tree_sitter_declarator(call.at)
           /\ Ok(call.res)
           /\ call.res.val.node = "FunctionDeclarator"
           /\ Len(call.res.val.parameter_type_list[1])
                  = Cardinality(ParametersAt(Append(call.at, 2),
                                             "parameter_declaration"))
           /\ call.res.val.is_variadic
                  <=> ParametersAt(Append(call.at, 2), "variadic_parameter") # {}

\* The children of the node at p, from the from-th on, up to the first that
\* is not a field_declaration.
RECURSIVE GuardedFields(_, _)
GuardedFields(p, from) ==
    IF from <= tree[p].child_count /\ tree[Append(p, from)].type = "field_declaration"
    THEN <<Append(p, from)>> \o GuardedFields(p, from + 1)
    ELSE <<>>

HasChildOfType(p, types) ==
    \E i \in 1..tree[p].child_count : tree[Append(p, i)].type \in types

\* C11: a field-list element that is an #ifdef/#ifndef conditional guarding
\* field declarations lowers to one MacroConditionalStructDeclaration whose
\* if_group is a MacroStructDeclarationIfdefGroup with the guarded
\* identifier, is_ifndef set exactly for #ifndef, and the guarded fields in
\* order; elif_groups and else_group are None when absent.
C11_IfdefGuardedFields ==
    (/\ CalledMethod("consume_tree_sitter_field_declaration")
     /\ is_preproc_ifdef_field_declaration_list(call.at)
     /\ GuardedFields(call.at, 3) # <<>>)
        => LET fields == GuardedFields(call.at, 3)
               decl == call.res.val
           IN  /\ Ok(call.res)
               /\ decl.node = "MacroConditionalStructDeclaration"
               /\ decl.if_group.node = "MacroStructDeclarationIfdefGroup"
               /\ decl.if_group.identifier.name = tree[Append(call.at, 2)].text
               /\ decl.if_group.is_ifndef
                      <=> tree[Append(call.at, 1)].type = "#ifndef"
               /\ decl.if_group.declarations # None
               /\ Len(decl.if_group.declarations[1]) = Len(fields)
               /\ \A i \in 1..Len(fields) :
                      decl.if_group.declarations[1][i]
                          = consume_c_struct_field_declaration(fields[i]).val
               /\ ~HasChildOfType(call.at, {"preproc_elif_in_field_declaration_list"})
                      => decl.elif_groups = None
               /\ ~HasChildOfType(call.at, {"preproc_else_in_field_declaration_list"})
                      => decl.else_group = None

\* The conditional sections a call returned: the IfSectionDirective of a
\* top-level section, the MacroConditionalStructDeclaration of a field-list
\* element, the MacroEnumeratorList elements of an enumerator list.
SectionsReturned ==
    IF pc # "called" \/ call.res.exc # "none" THEN {}
    ELSE IF call.method = "parse_preprocess_if_section" THEN {call.res.val}
    ELSE IF call.method = "consume_tree_sitter_field_declaration"
    THEN IF call.res.val.node = "MacroConditionalStructDeclaration"
         THEN {call.res.val} ELSE {}
    ELSE IF call.method = "consume_c_enum_specifier"
    THEN IF call.res.val.enumerators = None THEN {}
         ELSE {call.res.val.enumerators[1][i] :
                   i \in {j \in 1..Len(call.res.val.enumerators[1]) :
                              call.res.val.enumerators[1][j].node
                                  = "MacroEnumeratorList"}}
    ELSE {}

\* The group nodes of a section: its if group, its elif groups, its else group.
GroupsOf(section) ==
    <<section.if_group>>
        \o (IF section.elif_groups = None THEN <<>> ELSE section.elif_groups[1])
        \o section.else_group

\* The guarded region of a group node.
BodyOf(g) ==
    IF "group" \in DOMAIN g THEN g.group
    ELSE IF "declarations" \in DOMAIN g THEN g.declarations
    ELSE g.enumerators

\* C12: in every group node of a returned conditional section (top-level,
\* struct field list, enumerator list) the guarded region is None when
\* nothing is guarded, and never an empty sequence.
C12_EmptyRegionIsNone ==
    \A section \in SectionsReturned :
        \A i \in 1..Len(GroupsOf(section)) :
            BodyOf(GroupsOf(section)[i]) # Some(<<>>)

\* The alternative of the group at p (a child #elif, #else or #elifdef node),
\* as a set of at most one path.
AlternativeOf(p, types) ==
    {Append(p, i) : i \in {j \in 1..tree[p].child_count :
                               tree[Append(p, j)].type \in types}}

\* The chain of #elif groups that follows the group at p, in source order.
RECURSIVE ElifGroups(_, _)
ElifGroups(p, suffix) ==
    IF AlternativeOf(p, {"preproc_elif" \o suffix}) = {} THEN <<>>
    ELSE LET q == CHOOSE a \in AlternativeOf(p, {"preproc_elif" \o suffix}) : TRUE
         IN  <<q>> \o ElifGroups(q, suffix)

\* The last group of the chain that starts at p: where an #else or an
\* #elifdef group hangs.
LastGroup(p, suffix) ==
    IF ElifGroups(p, suffix) = <<>> THEN p
    ELSE ElifGroups(p, suffix)[Len(ElifGroups(p, suffix))]

\* The top-level items guarded by the group at p, from its from-th child on.
RECURSIVE GuardedItems(_, _)
GuardedItems(p, from) ==
    IF /\ from <= tree[p].child_count
       /\ tree[Append(p, from)].type
              \in TreeSitterTopLevelPreprocessType \cup TreeSitterTopLevelCNodeType
    THEN <<Append(p, from)>> \o GuardedItems(p, from + 1)
    ELSE <<>>

\* The group field of a directive that guards the top-level items `items`.
LoweredGroup(items) ==
    IF items = <<>> THEN None
    ELSE Some([i \in 1..Len(items) |-> parse_top_level_ast_node(items[i]).val])

\* C13: a top-level #if/#ifdef/#ifndef section with k >= 0 #elif groups, an
\* optional #else group and the closing #endif lowers to one
\* IfSectionDirective: elif_groups holds the k ElifDirective nodes in order
\* (None when k = 0), each with its condition and its guarded items,
\* else_group is the ElseDirective when there is an #else, endif is the
\* EndIfDirective.
C13_TopLevelSectionLowered ==
    (/\ CalledMethod("parse_preprocess_if_section")
     /\ AlternativeOf(LastGroup(call.at, ""), {"preproc_elifdef"}) = {})
        => LET elifs == ElifGroups(call.at, "")
               else == AlternativeOf(LastGroup(call.at, ""), {"preproc_else"})
               section == call.res.val
           IN  /\ Ok(call.res)
               /\ section.node = "IfSectionDirective"
               /\ elifs = <<>> => section.elif_groups = None
               /\ elifs # <<>> =>
                      /\ section.elif_groups # None
                      /\ Len(section.elif_groups[1]) = Len(elifs)
                      /\ \A i \in 1..Len(elifs) :
                             LET g == section.elif_groups[1][i]
                             IN  /\ g.node = "ElifDirective"
                                 /\ g.condition
                                        = consume_preprocess_expression(
                                              Append(elifs[i], 2)).val
                                 /\ g.group = LoweredGroup(GuardedItems(elifs[i], 4))
               /\ else = {} => section.else_group = None
               /\ \A e \in else :
                      /\ section.else_group # None
                      /\ section.else_group[1].node = "ElseDirective"
                      /\ section.else_group[1].group
                             = LoweredGroup(GuardedItems(e, 2))
               /\ section.endif.node = "EndIfDirective"

ElifdefTypes ==
    {"preproc_elifdef" \o suffix :
         suffix \in {"", "_in_field_declaration_list", "_in_enumerator_list",
                     "_in_enumerator_list_no_comma"}}

\* An #elifdef/#elifndef group occurs in the subtree of the node at p.
ContainsElifdef(p) ==
    \E q \in DOMAIN tree :
        /\ Len(q) > Len(p)
        /\ SubSeq(q, 1, Len(p)) = p
        /\ tree[q].type \in ElifdefTypes

\* The methods that lower a conditional construct or what encloses it.
ConditionalLowerings ==
    {"parse_preprocess_if_section", "consume_tree_sitter_field_declaration",
     "consume_c_struct_or_union_specifier", "consume_c_enum_specifier",
     "parse_c_declaration"}

\* C14: lowering a construct that holds an #elifdef/#elifndef group raises
\* CodeError, in every context (top level, struct field list, enumerator
\* list) and wherever the group stands (after the head group, or under an
\* #elif group).
C14_ElifdefRaisesCodeError ==
    (/\ pc = "called"
     /\ call.method \in ConditionalLowerings
     /\ ContainsElifdef(call.at))
        => call.res.exc = "CodeError"

HasTag(p) == HasChildOfType(p, {"type_identifier"})
HasBody(p) == HasChildOfType(p, {"field_declaration_list", "enumerator_list"})
SpecifierConsumers ==
    {"consume_c_struct_or_union_specifier", "consume_c_enum_specifier"}

\* The body of a returned specifier node.
SpecifierBody(n) ==
    IF n.node = "EnumSpecifier" THEN n.enumerators ELSE n.declarations

\* C15: a struct, union or enum specifier with neither a tag nor a body
\* raises CodeError; every StructOrUnionSpecifier or EnumSpecifier that is
\* returned has an identifier or a body.
C15_TagOrBodyRequired ==
    (pc = "called" /\ call.method \in SpecifierConsumers)
        => /\ (~HasTag(call.at) /\ ~HasBody(call.at))
                  => call.res.exc = "CodeError"
           /\ Ok(call.res)
                  => \/ call.res.val.identifier # None
                     \/ SpecifierBody(call.res.val) # None

C15_Witness ==
    /\ CalledMethod("consume_c_enum_specifier")
    /\ ~HasTag(call.at) /\ ~HasBody(call.at)
    /\ call.res.exc = "CodeError"
    /\ call.res.val.msg = "missing both enum name and enumerator list"

ParenthesizedDeclaratorTypes ==
    {"parenthesized_declarator", "abstract_parenthesized_declarator"}

\* The call is on a construct that holds a rejected extension: a named
\* pointer declarator with an ms_based_modifier or an ms_pointer_modifier,
\* a named or abstract parenthesized declarator with an ms_call_modifier,
\* an enum specifier with `:` after its tag.
OnRejectedExtension ==
    /\ pc = "called"
    /\ \/ /\ call.method \in {"consume_tree_sitter_pointer_declarator",
                              "consume_tree_sitter_declarator"}
          /\ tree[call.at].type = "pointer_declarator"
          /\ HasChildOfType(call.at, {"ms_based_modifier", "ms_pointer_modifier"})
       \/ /\ call.method \in {"consume_tree_sitter_declarator",
                              "consume_c_abstract_declarator"}
          /\ tree[call.at].type \in ParenthesizedDeclaratorTypes
          /\ HasChildOfType(call.at, {"ms_call_modifier"})
       \/ /\ call.method = "consume_c_enum_specifier"
          /\ HasTag(call.at)
          /\ HasChildOfType(call.at, {":"})

\* C16: a rejected extension raises CodeError and no node is lowered.
C16_RejectedExtensionsRaiseCodeError ==
    OnRejectedExtension => call.res.exc = "CodeError"

C16_Witness ==
    /\ OnRejectedExtension
    /\ tree[call.at].type = "parenthesized_declarator"
    /\ call.res.exc = "CodeError"
    /\ call.res.val.msg = "MSVC call modifier is not supported"

PreprocessExpressionTypes ==
    PreprocessPrimitiveType
        \cup {"preproc_call_expression", "preproc_defined",
              "preproc_unary_expression", "preproc_binary_expression",
              "preproc_parenthesized_expression"}
DispatchedDeclaratorTypes ==
    {"identifier", "init_declarator", "attributed_declarator",
     "pointer_declarator", "array_declarator", "parenthesized_declarator"}
FieldElementTypes ==
    {"field_declaration", "preproc_def", "preproc_function_def", "preproc_call",
     "preproc_if_in_field_declaration_list",
     "preproc_ifdef_in_field_declaration_list"}
EnumeratorElementTypes ==
    {"enumerator", "preproc_call", ","}
        \cup {"preproc_" \o head \o "_in_enumerator_list" \o comma :
                  head \in {"if", "ifdef"}, comma \in {"", "_no_comma"}}
InitializerElementTypes == {"initializer_list", "initializer_pair", ","}

\* The first element of the list at p, when the list production has no
\* predicate for it.
FirstElementNot(p, recognized) ==
    {Append(p, 2)} \cap {q \in DOMAIN tree : tree[q].type \notin recognized \cup {"}"}}

\* The node a call meets first that matches none of the predicates of the
\* production the call lowers, as a set of at most one path.
Unrecognized ==
    IF pc # "called" THEN {}
    ELSE IF call.method = "parse_top_level_ast_node"
    THEN {call.at} \cap {q \in DOMAIN tree :
              tree[q].type \notin TreeSitterTopLevelPreprocessType
                                      \cup TreeSitterTopLevelCNodeType}
    ELSE IF call.method = "consume_preprocess_expression"
    THEN {call.at} \cap {q \in DOMAIN tree :
              tree[q].type \notin PreprocessExpressionTypes}
    ELSE IF call.method = "consume_tree_sitter_declarator"
    THEN {call.at} \cap {q \in DOMAIN tree :
              tree[q].type \notin DispatchedDeclaratorTypes}
    ELSE IF call.method = "consume_c_struct_or_union_specifier"
    THEN UNION {FirstElementNot(l, FieldElementTypes) :
                    l \in AlternativeOf(call.at, {"field_declaration_list"})}
    ELSE IF call.method = "consume_c_enum_specifier"
    THEN UNION {FirstElementNot(l, EnumeratorElementTypes) :
                    l \in AlternativeOf(call.at, {"enumerator_list"})}
    ELSE IF call.method = "consume_tree_sitter_initializer_list"
    THEN FirstElementNot(call.at, InitializerElementTypes)
    ELSE {}

\* C17: a node that matches none of the predicates of the production being
\* lowered (top-level item, field-list element, enumerator-list element,
\* initializer-list element, preprocessor expression, declarator) makes the
\* call raise a CodeError that carries the range of that node.
C17_UnrecognizedRaisesCodeError ==
    \A n \in Unrecognized :
        /\ call.res.exc = "CodeError"
        /\ call.res.val.code_range = tree[n].range

\* The places of a C expression: the initializer of an init declarator, the
\* size of an array declarator, the width of a bit-field, the value of an
\* enumerator.
ExpressionPlaces ==
    {"init_declarator", "array_declarator", "bitfield_clause", "enumerator"}

\* The C expressions in the subtree of the node at p that lowering it gets
\* to: those inside a function declarator are out of its reach, the
\* declarator dispatch having no branch that enters one.
ExpressionsUnder(p) ==
    {q \in DOMAIN tree :
         /\ Len(q) > Len(p)
         /\ SubSeq(q, 1, Len(p)) = p
         /\ tree[q].type = "number_literal"
         /\ tree[GotoParent(q)].type \in ExpressionPlaces
         /\ \A k \in Len(p)..(Len(q) - 1) :
                tree[SubSeq(q, 1, k)].type # "function_declarator"}

\* The methods that lower a construct with a place for a C expression.
ExpressionLowerings ==
    {"parse_top_level_ast_node", "parse_c_declaration",
     "consume_tree_sitter_declarator", "consume_tree_sitter_array_declarator",
     "consume_c_struct_or_union_specifier",
     "consume_tree_sitter_field_declaration",
     "consume_c_struct_field_declaration", "consume_c_enum_specifier"}

\* The call lowers a top-level C node that is not a declaration, or a
\* construct that holds a C expression.
OnExtensionPoint ==
    /\ pc = "called"
    /\ \/ /\ call.method = "parse_top_level_ast_node"
          /\ tree[call.at].type \in TreeSitterTopLevelCNodeType \ {"declaration"}
       \/ /\ call.method \in ExpressionLowerings
          /\ ExpressionsUnder(call.at) # {}

\* C18: lowering a top-level function_definition, type_definition,
\* linkage_specification, attributed_statement or expression_statement, or a
\* construct that holds a C expression, raises NotImplementedError.
C18_ExtensionPointsNotImplemented ==
    OnExtensionPoint => call.res.exc = "NotImplementedError"

C18_Witness ==
    /\ OnExtensionPoint
    /\ call.method = "parse_top_level_ast_node"
    /\ tree[call.at].type = "function_definition"
    /\ call.res.exc = "NotImplementedError"

\* The identifier a preproc_defined node names, in either form.
DefinedIdentifier(p) ==
    tree[CHOOSE q \in AlternativeOf(p, {"identifier"}) : TRUE].text

\* C19: on a preproc_defined node, `defined(id)` and `defined id` both lower
\* to a PreprocessDefined with that identifier, and the cursor is left on
\* the node's next sibling.
C19_DefinedLowered ==
    (/\ CalledMethod("consume_preprocess_expression")
     /\ is_preprocess_defined_call(call.at))
        => /\ Ok(call.res)
           /\ call.res.val.node = "PreprocessDefined"
           /\ call.res.val.identifier = DefinedIdentifier(call.at)
           /\ call.res.cur = GotoNextSibling(call.at)

\* The PrimitiveTypeSpecifierKind named after a primitive type's text.
KindOf(text) ==
    CASE text = <<"void">> -> "Void"
      [] text = <<"char">> -> "Char"
      [] text = <<"int">> -> "Int"
      [] text = <<"float">> -> "Float"
      [] text = <<"double">> -> "Double"

TypeSpecifierConsumers ==
    {"consume_c_primitive_type_specifier", "consume_c_type_specifier"}

\* C20: a primitive_type node whose text is void, char, int, float or double
\* lowers to a PrimitiveTypeSpecifier of the matching kind; a TypedefName is
\* returned only for a name that is none of these.
C20_PrimitiveKindKept ==
    (pc = "called" /\ call.method \in TypeSpecifierConsumers)
        => /\ (/\ is_c_primitive_type_specifier(call.at)
               /\ tree[call.at].text \in {<<t>> : t \in PrimitiveTypes})
                  => /\ Ok(call.res)
                     /\ call.res.val.node = "PrimitiveTypeSpecifier"
                     /\ call.res.val.kind = KindOf(tree[call.at].text)
           /\ (Ok(call.res) /\ call.res.val.node = "TypedefName")
                  => tree[call.at].text \notin {<<t>> : t \in PrimitiveTypes}

\* The child of the node at p with one of the types, wrapped as an Optional.
OptionalChild(p, types) ==
    IF AlternativeOf(p, types) = {} THEN None
    ELSE Some(CHOOSE q \in AlternativeOf(p, types) : TRUE)

\* C21: a struct_specifier lowers to a StructOrUnionSpecifier with
\* is_struct = True and a union_specifier to one with is_struct = False,
\* each with its tag identifier and its field-declaration list when the
\* node has them.  (A specifier with neither is the case of C15, and field
\* lists are taken as they are lowered by the field-list consumer.)
C21_StructOrUnionLowered ==
    (/\ CalledMethod("consume_c_struct_or_union_specifier")
     /\ HasTag(call.at) \/ HasBody(call.at)
     /\ \A l \in AlternativeOf(call.at, {"field_declaration_list"}) :
            Ok(consume_tree_sitter_field_declaration_list(l)))
        => LET tag == OptionalChild(call.at, {"type_identifier"})
               body == OptionalChild(call.at, {"field_declaration_list"})
               spec == call.res.val
           IN  /\ Ok(call.res)
               /\ spec.node = "StructOrUnionSpecifier"
               /\ spec.is_struct <=> tree[call.at].type = "struct_specifier"
               /\ tag = None => spec.identifier = None
               /\ tag # None
                      => /\ spec.identifier # None
                         /\ spec.identifier[1].name = tree[tag[1]].text
               /\ body = None => spec.declarations = None
               /\ body # None
                      => spec.declarations
                             = Some(consume_tree_sitter_field_declaration_list(
                                        body[1]).val)

(***************************************************************************)
(* The fixer registry on its own: fixers are registered and looked up in   *)
(* any order, on a CST that holds syntax errors.                           *)
(***************************************************************************)
MaxRegistered == 3  \* fixers the registry holds at most

FixerNodeTypes == {"ERROR", "declaration"}
Fixers ==
    [node_type : FixerNodeTypes, fixes : {"always", "never", "leaf"}]

BrokenDeclaration ==
    [type |-> "ERROR", text |-> <<>>, kids |-> <<Prim("int")>>, err |-> TRUE]
RegistryInputs ==
    {Cst(TranslationUnitOf(<<SyntaxError, BrokenDeclaration,
                             Decl(<<Prim("int")>>, <<Ident("x")>>)>>))}

Registered(reg) ==
    LET RECURSIVE Total(_)
        Total(keys) ==
            IF keys = {} THEN 0
            ELSE LET key == CHOOSE k \in keys : TRUE
                 IN  Len(reg[key]) + Total(keys \ {key})
    IN  Total(DOMAIN reg)

InitRegistry ==
    /\ tree \in RegistryInputs
    /\ cursor = <<>>
    /\ pc = "start"
    /\ nodes = <<>>
    /\ outcome = NoOutcome
    /\ visited = <<>>
    /\ call = NoCall
    /\ registry = EmptyRegistry
    /\ first_run = None

call_register ==
    \E fixer \in Fixers :
        /\ \E res \in {register(registry, fixer)} :
               /\ Registered(res.registry) <= MaxRegistered
               /\ call' = [method |-> "register", fixer |-> fixer,
                           before |-> registry, ret |-> res.ret]
               /\ registry' = res.registry
        /\ UNCHANGED <<tree, cursor, pc, nodes, outcome, visited, first_run>>

call_lookup_fixer ==
    \E node \in {None} \cup {Some(p) : p \in DOMAIN tree} :
        /\ \E res \in {lookup_fixer(registry, tree, node)} :
               /\ call' = [method |-> "lookup_fixer", node |-> node,
                           before |-> registry, ret |-> res.ret]
               /\ registry' = res.registry
        /\ UNCHANGED <<tree, cursor, pc, nodes, outcome, visited, first_run>>

NextRegistry ==
    \/ call_register
    \/ call_lookup_fixer

SpecRegistry == InitRegistry /\ [][NextRegistry]_vars

\* The list the registry holds under a key; a key it does not hold has none.
ListUnder(reg, key) == IF key \in DOMAIN reg THEN reg[key] ELSE <<>>

\* C22: register(f) returns True and appends f to the list under
\* f.node_type() when f is not in that list, and returns False and leaves
\* the whole registry as it was when it is; so no list ever holds the same
\* fixer twice, and a list grows only at its end.
C22_RegisterAppendsOnce ==
    /\ call.method = "register"
           => LET fixer == call.fixer
                  key == fixer.node_type
                  before == ListUnder(call.before, key)
              IN  IF fixer_in(fixer, before)
                  THEN call.ret = FALSE /\ registry = call.before
                  ELSE /\ call.ret = TRUE
                       /\ registry[key] = Append(before, fixer)
                       /\ \A other \in DOMAIN call.before \ {key} :
                              /\ other \in DOMAIN registry
                              /\ registry[other] = call.before[other]
                       /\ DOMAIN registry = DOMAIN call.before \cup {key}
    /\ \A key \in DOMAIN registry :
           \A i, j \in 1..Len(registry[key]) :
               registry[key][i] = registry[key][j] => i = j

C22_Witness ==
    /\ call.method = "register"
    /\ call.ret = FALSE
    /\ Len(registry[call.fixer.node_type]) >= 2

\* C23: lookup_fixer returns the earliest-registered fixer under the node
\* type of the cursor's node whose can_fix holds, never one registered under
\* another node type, and None when there is no such fixer or the cursor
\* has no node.
C23_LookupEarliestFixer ==
    call.method = "lookup_fixer"
        => IF call.node = None THEN call.ret = None
           ELSE LET at == call.node[1]
                    fixer_list == ListUnder(call.before, tree[at].type)
                    fixing == {i \in 1..Len(fixer_list) :
                                  can_fix(fixer_list[i], tree, at)}
                IN  IF fixing = {} THEN call.ret = None
                    ELSE /\ call.ret # None
                         /\ call.ret[1].node_type = tree[at].type
                         /\ \E i \in fixing :
                                /\ call.ret[1] = fixer_list[i]
                                /\ \A j \in fixing : i <= j

\* A later fixer is returned past an earlier one that cannot fix the node,
\* while another that can is registered after it.
C23_Witness ==
    /\ call.method = "lookup_fixer"
    /\ call.ret # None
    /\ LET fixer_list == call.before[tree[call.node[1]].type]
       IN  /\ Len(fixer_list) = 3
           /\ fixer_list[2] = call.ret[1]
           /\ ~can_fix(fixer_list[1], tree, call.node[1])
           /\ can_fix(fixer_list[3], tree, call.node[1])

\* C26: lookup_fixer leaves the registry as it was: the same node-type keys
\* and the same list under each, also for the node types under which
\* nothing was ever registered.
C26_LookupLeavesRegistry ==
    call.method = "lookup_fixer"
        => /\ DOMAIN registry = DOMAIN call.before
           /\ \A key \in DOMAIN call.before : registry[key] = call.before[key]

(***************************************************************************)
(* The AST nodes a lowered value holds (vul_witch/ast/node.py): every      *)
(* field of a node class that is an AstNode, an Optional AstNode or a      *)
(* sequence of AstNodes.                                                   *)
(***************************************************************************)
OptList(x) == IF x = None THEN <<>> ELSE x[1]

Children(v) ==
    CASE v.node \in {"Identifier", "PreprocessPrimitive", "PreprocessDefined",
                     "StorageClassSpecifier", "TypeQualifier",
                     "PrimitiveTypeSpecifier", "FunctionSpecifier",
                     "TypedefName", "DefineDirective",
                     "FunctionDefineDirective", "UndefineDirective",
                     "ErrorDirective", "PragmaDirective", "LineDirective",
                     "EndIfDirective"} -> <<>>
      [] v.node = "TranslationUnit" -> v.nodes
      [] v.node = "Declaration" ->
             v.specifiers \o OptList(v.init_declarators)
      [] v.node = "ParenthesizedPreprocessExpression" -> <<v.expression>>
      [] v.node = "PreprocessUnaryExpression" -> <<v.operand>>
      [] v.node = "PreprocessBinaryExpression" -> <<v.lhs, v.rhs>>
      [] v.node = "PreprocessCallExpression" -> v.arguments
      [] v.node = "IncludeDirective" ->
             IF v.type_ = "preproc_call_expression" THEN <<v.target>>
             ELSE <<>>
      [] v.node \in {"IfDirective", "ElifDirective"} ->
             OptList(v.group) \o <<v.condition>>
      [] v.node \in {"IfDefDirective", "IfUndefDirective", "ElseDirective"} ->
             OptList(v.group)
      [] v.node = "IfSectionDirective" ->
             <<v.if_group>> \o OptList(v.elif_groups) \o v.else_group
                 \o <<v.endif>>
      [] v.node = "StructOrUnionSpecifier" ->
             v.identifier \o OptList(v.declarations)
      [] v.node = "StructField" ->
             v.specifier_qualifier_list \o v.declarators \o v.attribute
      [] v.node = "StructDeclarator" -> <<v.declarator>> \o v.bit_width
      [] v.node \in {"MacroStructDeclarationIfGroup",
                     "MacroStructDeclarationElifGroup"} ->
             OptList(v.declarations) \o <<v.condition>>
      [] v.node = "MacroStructDeclarationIfdefGroup" ->
             OptList(v.declarations) \o <<v.identifier>>
      [] v.node = "MacroStructDeclarationElseGroup" ->
             OptList(v.declarations)
      [] v.node \in {"MacroConditionalStructDeclaration",
                     "MacroEnumeratorList"} ->
             <<v.if_group>> \o OptList(v.elif_groups) \o v.else_group
      [] v.node \in {"MacroDefStructDeclaration",
                     "MacroFunctionDefStructDeclaration",
                     "MacroDirectiveStructDeclaration"} -> <<v.directive>>
      [] v.node = "EnumSpecifier" ->
             v.identifier \o OptList(v.enumerators)
      [] v.node = "Enumerator" -> <<v.identifier>> \o v.expression
      [] v.node \in {"MacroEnumeratorIfGroup", "MacroEnumeratorElifGroup"} ->
             OptList(v.enumerators) \o <<v.condition>>
      [] v.node = "MacroEnumeratorIfdefGroup" ->
             OptList(v.enumerators) \o <<v.identifier>>
      [] v.node = "MacroEnumeratorElseGroup" -> OptList(v.enumerators)
      [] v.node = "MacroDirectiveEnumerator" -> <<v.call>>
      [] v.node = "MacroTypeSpecifier" -> <<v.identifier, v.type_name>>
      [] v.node = "AbstractPointerDeclarator" ->
             OptList(v.type_qualifier_list) \o v.declarator
      [] v.node = "AbstractFunctionDeclarator" ->
             v.declarator \o OptList(v.parameter_type_list)
      [] v.node = "AbstractArrayDeclarator" ->
             v.declarator \o <<v.array_size>>
      [] v.node \in {"AbstractParenthesizedDeclarator",
                     "ParenthesizedDeclarator"} -> <<v.declarator>>
      [] v.node = "ArraySize" ->
             OptList(v.type_qualifiers) \o v.expression
      [] v.node = "ParameterDeclaration" ->
             v.specifiers \o v.declarator \o OptList(v.attribute_list)
      [] v.node = "TypeName" ->
             v.specifier_qualifier_list \o v.declarator
      [] v.node = "IdentifierDeclarator" -> <<v.identifier>>
      [] v.node = "PointerDeclarator" ->
             OptList(v.type_qualifier_list) \o <<v.declarator>>
      [] v.node = "FunctionDeclarator" ->
             <<v.declarator>> \o OptList(v.parameter_type_list)
      [] v.node = "ArrayDeclarator" -> <<v.declarator, v.array_size>>
      [] v.node = "InitDeclarator" -> <<v.declarator, v.initializer>>
      [] v.node = "ExpressionInitializer" -> <<v.expression>>
      [] v.node = "InitializerList" -> v.items
      [] v.node = "Attribute" -> OptList(v.arguments)

RECURSIVE NodesOf(_)
NodesOf(v) ==
    {v} \cup UNION {NodesOf(Children(v)[i]) : i \in 1..Len(Children(v))}

\* The AST nodes the method applied has returned.
Produced ==
    CASE call.method \in {"consume_node_with_type",
                          "consume_tree_sitter_identifier"} -> <<>>
      [] call.method \in {"consume_c_declaration_specifiers",
                          "consume_tree_sitter_sized_type_specifier"} ->
             call.res.val
      [] call.method = "consume_c_parameter_type_list" -> call.res.val.list
      [] OTHER -> <<call.res.val>>

AllProduced ==
    IF pc = "called" /\ Ok(call.res)
    THEN UNION {NodesOf(Produced[i]) : i \in 1..Len(Produced)}
    ELSE {}

\* C24: every AST node the engine produces has code_range.start <=
\* code_range.end, the ranges put together from two CST nodes included
\* (conditional group heads, struct declarators, #define, defined(...),
\* array sizes).
C24_RangesOrdered ==
    \A n \in AllProduced : n.code_range[1] <= n.code_range[2]

\* The node classes whose range is put together from two CST nodes.
SynthesizedRanges ==
    {"IfDirective", "IfDefDirective", "IfUndefDirective", "ElifDirective",
     "StructDeclarator", "DefineDirective", "PreprocessDefined", "ArraySize",
     "MacroStructDeclarationIfGroup", "MacroStructDeclarationIfdefGroup",
     "MacroEnumeratorIfGroup", "MacroEnumeratorIfdefGroup"}

\* A conditional group head is produced whose range is the range of no CST
\* node.
C24_Witness ==
    \E n \in AllProduced :
        /\ n.node \in SynthesizedRanges
        /\ n.code_range[1] < n.code_range[2]
        /\ \A p \in DOMAIN tree : tree[p].range # n.code_range

(***************************************************************************)
(* parse_module called twice on the same CST, each call with its own fresh *)
(* cursor, with any fixers registered before each call.                    *)
(***************************************************************************)
ErrorFixer(fixes) == [node_type |-> "ERROR", fixes |-> fixes]
Registries ==
    {EmptyRegistry,
     register(EmptyRegistry, ErrorFixer("always")).registry,
     register(register(EmptyRegistry, ErrorFixer("never")).registry,
              ErrorFixer("leaf")).registry}

InitTwoRuns ==
    /\ tree \in Inputs
    /\ cursor = <<>>
    /\ pc = "start"
    /\ nodes = <<>>
    /\ outcome = NoOutcome
    /\ visited = <<>>
    /\ call = NoCall
    /\ registry \in Registries
    /\ first_run = None

\* The first call has ended: a new TreeSitterCParser is made of the same
\* source and its parse_module is called.
parse_module_again ==
    /\ pc \in {"returned", "raised"}
    /\ first_run = None
    /\ first_run' = Some(outcome)
    /\ registry' \in Registries
    /\ cursor' = <<>>
    /\ pc' = "start"
    /\ nodes' = <<>>
    /\ outcome' = NoOutcome
    /\ visited' = <<>>
    /\ UNCHANGED <<tree, call>>

NextTwoRuns ==
    \/ parse_module_begin
    \/ parse_module_error
    \/ parse_module_skip
    \/ parse_module_item
    \/ loop_again
    \/ parse_module_again

SpecTwoRuns == InitTwoRuns /\ [][NextTwoRuns]_vars

RECURSIVE Shape(_)
Shape(p) ==
    [type |-> tree[p].type, text |-> tree[p].text,
     kids |-> [i \in 1..tree[p].child_count |-> Shape(Append(p, i))]]

\* The children of an array declarator between its `[` and its `]`.
Between(p) ==
    LET open == CHOOSE i \in 1..tree[p].child_count :
                    tree[Append(p, i)].type = "["
    IN  [i \in 1..(tree[p].child_count - open - 1) |->
            Shape(Append(p, open + i))]

\* What of an array declarator's outcome classifies its size.
SizeOutcome(r) ==
    IF ~Ok(r) THEN [exc |-> r.exc]
    ELSE [exc |-> "none", kind |-> r.val.array_size.kind,
          qualifiers |->
              LET q == r.val.array_size.type_qualifiers
              IN  IF q = None THEN None
                  ELSE Some([i \in 1..Len(q[1]) |-> q[1][i].kind]),
          expression |-> r.val.array_size.expression # None]

\* C27: with the same tokens between `[` and `]`, the named and the abstract
\* array declarator end alike: the same ArraySize kind, qualifiers and
\* presence of an expression, or the same class of exception.
C27_ArraySizesAgree ==
    CalledMethod("consume_tree_sitter_array_declarator")
        => \A q \in DOMAIN tree :
               (/\ tree[q].type = "abstract_array_declarator"
                /\ Between(q) = Between(call.at))
                   => SizeOutcome(Call("consume_c_abstract_declarator", <<q>>))
                          = SizeOutcome(call.res)

C27_Witness ==
    /\ CalledMethod("consume_tree_sitter_array_declarator")
    /\ Len(Between(call.at)) = 3
    /\ \E q \in DOMAIN tree :
           /\ tree[q].type = "abstract_array_declarator"
           /\ Between(q) = Between(call.at)

\* C28: on every node type _is_c_type_specifier accepts (struct, union,
\* enum, macro type, sized type, primitive type, type identifier)
\* _consume_c_type_specifier has a branch, so neither it nor the lowering of
\* a struct field's specifier-qualifier list raises Unreachable.
C28_TypeSpecifierDispatched ==
    (\/ /\ CalledMethod("consume_c_type_specifier")
        /\ is_c_type_specifier(call.at)
     \/ CalledMethod("consume_c_struct_field_declaration"))
        => call.res.exc # "Unreachable"

\* The node types of the children that are a declarator of a parameter
\* declaration or of a type name: the named and the abstract ones.
DeclaratorChildTypes ==
    {"identifier", "pointer_declarator", "array_declarator",
     "function_declarator", "parenthesized_declarator",
     "abstract_pointer_declarator", "abstract_array_declarator",
     "abstract_function_declarator", "abstract_parenthesized_declarator"}

\* C29: when _consume_c_parameter_declaration or _consume_c_type_name
\* returns, no child was dropped: a declarator child of the node is the
\* result's declarator -- an abstract pointer declarator child an
\* AbstractPointerDeclarator -- so declarator is None only for a node
\* without a declarator child.
C29_NoChildDropped ==
    (/\ \/ CalledMethod("consume_c_parameter_declaration")
        \/ CalledMethod("consume_c_type_name")
     /\ Ok(call.res))
        => /\ HasChildOfType(call.at, DeclaratorChildTypes)
                  => call.res.val.declarator # None
           /\ HasChildOfType(call.at, {"abstract_pointer_declarator"})
                  => /\ call.res.val.declarator # None
                     /\ call.res.val.declarator[1].node
                            = "AbstractPointerDeclarator"

\* The children of the declaration at p that are declarators, in source
\* order.
DeclaratorsOf(p) ==
    LET RECURSIVE from(_)
        from(i) ==
            IF i > tree[p].child_count THEN <<>>
            ELSE IF is_tree_sitter_declarator(Append(p, i))
            THEN <<Append(p, i)>> \o from(i + 1)
            ELSE from(i + 1)
    IN  from(1)

\* C30: a declaration with n >= 2 declarators separated by `,` (as
\* `int a, b;`) lowers to one Declaration whose init_declarators are the n
\* declarators in source order.
C30_AllDeclaratorsListed ==
    (/\ CalledMethod("parse_c_declaration")
     /\ HasChildOfType(call.at, {","})
     /\ Len(DeclaratorsOf(call.at)) >= 2)
        => /\ Ok(call.res)
           /\ call.res.val.node = "Declaration"
           /\ call.res.val.init_declarators # None
           /\ LET listed == call.res.val.init_declarators[1]
                  children == DeclaratorsOf(call.at)
              IN  /\ Len(listed) = Len(children)
                  /\ \A i \in 1..Len(children) :
                         listed[i].code_range = tree[children[i]].range
====
